---- MODULE Spec2Model ----
(***************************************************************************)
(* Storage adapter of the messaging service (server/db/postgres/adapter.go)*)
(* modelled as a state machine over the relational tables it maintains.    *)
(*                                                                         *)
(* The relational engine is an external collaborator: a statement is an    *)
(* atomic transformation of the rows the transaction can see, a            *)
(* transaction's writes become visible to others at commit (read           *)
(* committed), a uniqueness constraint rejects a statement as a whole and  *)
(* a parameter that cannot be converted to its column's type makes the     *)
(* statement fail.  SQL dialect details (quoting, literal spelling) are    *)
(* not modelled; the binding of arguments to numbered placeholders, which  *)
(* the adapter computes itself, is.                                        *)
(***************************************************************************)
EXTENDS Integers, Sequences, FiniteSets, TLC

VARIABLES
    credentials,  \* committed rows of table credentials
    credSeq,      \* last value handed out by the SERIAL of credentials.id
    clock,        \* wall clock read by t.TimeNow(); advances with every credentials call
    openTx,       \* transactions begun by a call that returned without commit/rollback
    last,         \* the call that returned last, with its result
    tx,           \* per connection: the transaction in progress (interleaved runs)
    messages,     \* committed rows of table messages
    dellog,       \* committed rows of table dellog, in the order of their id
    topics,       \* committed rows of table topics, by name
    users,        \* committed rows of table users
    usertags,     \* committed rows of table usertags
    topictags,    \* committed rows of table topictags
    subscriptions, \* committed rows of table subscriptions
    auth,         \* committed rows of table auth
    fileuploads,  \* committed rows of table fileuploads
    filemsglinks, \* committed rows of table filemsglinks
    fdu,          \* the FileDeleteUnused transaction in progress
    dellogVar,    \* the package-level variable `dellog` that rows are scanned into
    getDel,       \* per goroutine: the MessageGetDeleted call in progress
    devices,      \* committed rows of table devices
    devTx,        \* per connection: the device transaction in progress
    devLast,      \* per device id: the user of the last committed DeviceUpsert
    adapter,      \* the fields of the adapter struct
    adpLast,      \* the connection call that returned last, with its result
    opens         \* how the last Open that was not refused, or Close, ended

vars == <<credentials, credSeq, clock, openTx, last, tx, messages, dellog, topics,
          users, usertags, topictags, subscriptions, auth, fileuploads, devices,
          devTx, devLast, filemsglinks, fdu, dellogVar, getDel, adapter, adpLast,
          opens>>

\* the variables of each part of the adapter, and what each part leaves alone
credVars == <<credentials, credSeq, clock, tx>>
msgVars == <<messages, dellog>>
topicVars == <<topics>>
usrVars == <<users, usertags, topictags, subscriptions>>
fileVars == <<auth, fileuploads, filemsglinks, fdu>>
devVars == <<devices, devTx, devLast>>
linkVars == <<filemsglinks, fdu>>
scanVars == <<dellogVar, getDel>>
adpVars == <<adapter, adpLast, opens>>
exceptCred == <<msgVars, topicVars, usrVars, fileVars, devVars, scanVars, adpVars>>
exceptMsg == <<credVars, topicVars, usrVars, fileVars, devVars, scanVars, adpVars>>
exceptTopic == <<credVars, msgVars, usrVars, fileVars, devVars, openTx, scanVars, adpVars>>
exceptUsr == <<credSeq, clock, tx, openTx, fileuploads, filemsglinks, fdu, devTx, devLast, scanVars, adpVars>>
exceptAuth == <<credVars, msgVars, topicVars, usrVars, fileuploads, filemsglinks, fdu,
                devVars, openTx, scanVars, adpVars>>
exceptFile == <<credVars, msgVars, topicVars, usrVars, auth, devVars, openTx, scanVars, adpVars>>
exceptDev == <<credVars, msgVars, topicVars, usrVars, fileVars, openTx, scanVars, adpVars>>
exceptScan == <<credVars, msgVars, topicVars, usrVars, fileVars, devVars, openTx, adpVars>>
exceptAdp == <<credVars, msgVars, topicVars, usrVars, fileVars, devVars, openTx,
               scanVars>>

----------------------------------------------------------------------------
(* Bounds of the model *)

\* number of adapter calls in one behaviour, run one at a time
MaxClock == 3

\* number of adapter calls in one behaviour, run interleaved
MaxTxCalls == 2

\* largest numeric key the identifier codec is exercised on
MaxKey == 9

\* numeric ids of the users issuing calls
Users == {1, 2}

\* verification methods
Methods == {"email", "tel"}

\* credential values; "2" is a value an engine can read as a number
Values == {"a@x", "2"}

\* responses expected from the user
Resps == {"r1", "r2"}

\* connections running calls concurrently
Procs == {1, 2}

\* the method and the response the interleaved calls use
TxMethods == {"email"}
TxResps == {"r1"}

----------------------------------------------------------------------------
(* Identifier codec (server/store; only its callers are in this file) *)

\* store.EncodeUid: numeric key -> Uid, a bijection that fixes zero
EncodeUid(n) == IF n \in 1..MaxKey THEN (MaxKey + 1) - n ELSE 0

\* (variant: the Uid is handed back as the key)
DecodeUidRaw(uid) == uid

\* store.DecodeUid: Uid -> numeric key, the inverse of EncodeUid
DecodeUid(uid) == IF uid \in 1..MaxKey THEN (MaxKey + 1) - uid ELSE 0

\* t.Uid.String(): the opaque text of a Uid
UidText == [uid \in 0..(MaxKey + 1) |-> "U" \o ToString(uid)]

UidString(uid) == UidText[uid]

\* t.ParseUid: text -> Uid, the zero Uid when the text is malformed
ParseUid(str) ==
    IF \E uid \in 1..MaxKey : UidText[uid] = str
    THEN CHOOSE uid \in 1..MaxKey : UidText[uid] = str
    ELSE 0

decodeUidString(str) == DecodeUid(ParseUid(str))

\* the opaque text under which the rest of the service names user n
UserStr(n) == UidString(EncodeUid(n))

----------------------------------------------------------------------------
(* Errors *)

ErrNil == "nil"
ErrDuplicate == "ErrDuplicate"
ErrNotFound == "ErrNotFound"
ErrMalformed == "ErrMalformed"
\* engine errors, propagated unchanged
PqUnique == "pq: unique_violation"
PqBadText == "pq: invalid_text_representation"

\* isDupe: its test of the engine error is commented out
isDupe(err) == FALSE

----------------------------------------------------------------------------
(* Engine: typed parameters *)

IntArg(n) == [t |-> "int", v |-> n, s |-> ""]
StrArg(s) == [t |-> "str", v |-> 0, s |-> s]

\* the text a parameter is sent as
\* decimal text of the numbers the model handles
Decimal == [n \in 0..(MaxKey + MaxClock + 1) |-> ToString(n)]

ArgText(a) == IF a.t = "int" THEN Decimal[a.v] ELSE a.s

\* text -> bigint as the engine reads it; -1 when the text is no number
ParseBigint(s) ==
    IF \E n \in 0..MaxKey : Decimal[n] = s
    THEN CHOOSE n \in 0..MaxKey : Decimal[n] = s
    ELSE -1

\* a parameter bound to a BIGINT column cannot be converted
BadBigint(a) == a.t = "str" /\ ParseBigint(a.s) = -1

ArgBigint(a) == IF a.t = "int" THEN a.v ELSE ParseBigint(a.s)

Ids(rows) == {r.id : r \in rows}

\* (variant: the table is created without its UNIQUE constraint)
UniqueViolationOff(tbl) == FALSE

\* UNIQUE(synthetic): two rows of tbl share a synthetic key
UniqueViolation(tbl) ==
    \E r, s \in tbl : r.id # s.id /\ r.synthetic = s.synthetic

----------------------------------------------------------------------------
(* Table credentials: statements of CredUpsert *)

\* a Credential as the caller passes it
Cred(u, m, v, d, rsp, now) ==
    [user |-> UserStr(u), method |-> m, value |-> v, done |-> d, resp |-> rsp,
     createdat |-> now, updatedat |-> now]

\* (variant: the SELECT of a confirmed record finds nothing)
credSelectDoneNone(view, synth) == {}

\* SELECT done FROM credentials WHERE synthetic=$1
credSelectDone(view, synth) == {r \in view : r.synthetic = synth}

\* UPDATE credentials SET deletedat=$1 WHERE userid=$2 AND method=$3 AND done=false
credDeactivateRows(view, userId, method) ==
    {r \in view : r.userid = userId /\ r.method = method /\ ~r.done}

credDeactivate(view, now, userId, method) ==
    {IF r.userid = userId /\ r.method = method /\ ~r.done
     THEN [r EXCEPT !.deletedat = now] ELSE r : r \in view}

\* UPDATE credentials SET updatedat=$1,deletedat=NULL,resp=$2,done=0 WHERE synthetic=$3
credReviveRows(view, synth) == {r \in view : r.synthetic = synth}

\* (variant: the UPDATE does not clear deletedat)
credReviveKeepDeleted(view, cred, synth) ==
    {IF r.synthetic = synth
     THEN [r EXCEPT !.updatedat = cred.updatedat, !.resp = cred.resp, !.done = FALSE]
     ELSE r : r \in view}

credRevive(view, cred, synth) ==
    {IF r.synthetic = synth
     THEN [r EXCEPT !.updatedat = cred.updatedat, !.deletedat = 0,
                    !.resp = cred.resp, !.done = FALSE]
     ELSE r : r \in view}

\* DELETE FROM credentials WHERE synthetic=$1
credDeleteShadowRows(view, synth) == {r \in view : r.synthetic = synth}

credDeleteShadow(view, synth) == view \ credDeleteShadowRows(view, synth)

\* INSERT INTO credentials(createdat,updatedat,method,value,synthetic,userid,resp,done)
\* deletedat and retries take the column defaults
credNewRow(id, cred, synth, userId) ==
    [id |-> id, createdat |-> cred.createdat, updatedat |-> cred.updatedat,
     deletedat |-> 0, method |-> cred.method, value |-> cred.value,
     synthetic |-> synth, userid |-> userId, resp |-> cred.resp,
     done |-> cred.done, retries |-> 0]

\* what a call hands back: the table it leaves committed, its results, and what
\* became of its transaction ("commit", "rollback", or "open" when it returned
\* without ending it)
Outcome(tbl, val, err, end) == [tbl |-> tbl, val |-> val, err |-> err, end |-> end]

\* the tail of CredUpsert: "Add new record"
credInsert(tbl, view, cred, synth, userId, id) ==
    LET after == view \cup {credNewRow(id, cred, synth, userId)}
    IN  IF UniqueViolation(after)
        THEN Outcome(tbl, TRUE, IF isDupe(PqUnique) THEN ErrDuplicate ELSE PqUnique,
                     "rollback")
        ELSE Outcome(after, TRUE, ErrNil, "commit")

\* CredUpsert run alone, from begin to return, on committed table tbl
credUpsert(tbl, cred, now, id) ==
    LET userId == decodeUidString(cred.user)
        synth0 == cred.method \o ":" \o cred.value
        synth1 == cred.user \o ":" \o synth0
    IN  IF ~cred.done
        THEN IF credSelectDone(tbl, synth0) # {}
             THEN Outcome(tbl, FALSE, ErrDuplicate, "open")
             ELSE LET v1 == credDeactivate(tbl, now, userId, cred.method)
                      v2 == credRevive(v1, cred, synth1)
                  IN  IF credReviveRows(v1, synth1) # {}
                      THEN Outcome(v2, FALSE, ErrNil, "commit")
                      ELSE credInsert(tbl, v2, cred, synth1, userId, id)
        ELSE credInsert(tbl, credDeleteShadow(tbl, synth1), cred, synth0, userId, id)

\* whether CredUpsert reaches its INSERT (and so draws an id from the SERIAL)
credUpsertInserts(tbl, cred) ==
    LET synth0 == cred.method \o ":" \o cred.value
        synth1 == cred.user \o ":" \o synth0
    IN  IF cred.done THEN TRUE
        ELSE /\ credSelectDone(tbl, synth0) = {}
             /\ credReviveRows(tbl, synth1) = {}

----------------------------------------------------------------------------
(* credDel, CredDel *)

\* strings.Replace(constraints, "$i", "$i+1", 1) on the placeholder numbers in
\* the order they stand in the text: the first one equal to i becomes i+1
ReplaceFirst(phs, i) ==
    IF \E k \in 1..Len(phs) : phs[k] = i
    THEN LET k == CHOOSE j \in 1..Len(phs) :
                      phs[j] = i /\ \A h \in 1..(j - 1) : phs[h] # i
         IN  [phs EXCEPT ![k] = i + 1]
    ELSE phs

\* for i := 1; i <= queryVar; i++ { constraints = strings.Replace(...) }
RECURSIVE Renumber(_, _, _)
Renumber(phs, i, queryVar) ==
    IF i > queryVar THEN phs ELSE Renumber(ReplaceFirst(phs, i), i + 1, queryVar)

\* the columns constrained, in the order the constraints are appended
credDelCols(method, value) ==
    IF method = "" THEN <<"userid">>
    ELSE IF value = "" THEN <<"userid", "method">>
    ELSE <<"userid", "method", "value">>

credDelArgs(uid, method, value) ==
    IF method = "" THEN <<IntArg(DecodeUid(uid))>>
    ELSE IF value = "" THEN <<IntArg(DecodeUid(uid)), StrArg(method)>>
    ELSE <<IntArg(DecodeUid(uid)), StrArg(method), StrArg(value)>>

\* a row satisfies "col=$ph" for every constraint, with args bound by number
CredWhere(r, cols, phs, args) ==
    \A k \in 1..Len(cols) :
        LET a == args[phs[k]]
        IN  CASE cols[k] = "userid" -> r.userid = ArgBigint(a)
              [] cols[k] = "method" -> r.method = ArgText(a)
              [] cols[k] = "value"  -> r.value = ArgText(a)

\* binding fails: a text that is no number is bound to the BIGINT column
CredWhereBad(cols, phs, args) ==
    \E k \in 1..Len(cols) : cols[k] = "userid" /\ BadBigint(args[phs[k]])

\* placeholder numbers of the constraints as first written: $1, $2, $3
credDelPhs(cols) == [k \in 1..Len(cols) |-> k]

\* (variant: Case 2.1 deletes whatever the retries counter is)
credDelHardRowsAll(view, uid, method, value) ==
    LET cols == credDelCols(method, value)
    IN  {r \in view : CredWhere(r, cols, credDelPhs(cols),
                                credDelArgs(uid, method, value))}

\* "DELETE FROM credentials"+constraints  (method == "")
\* "DELETE FROM credentials"+constraints+" AND (done=true OR retries=0)"
credDelHardRows(view, uid, method, value) ==
    LET cols == credDelCols(method, value)
    IN  {r \in view : /\ CredWhere(r, cols, credDelPhs(cols),
                                   credDelArgs(uid, method, value))
                      /\ (method = "" \/ r.done \/ r.retries = 0)}

\* "UPDATE credentials SET deletedat=$1"+constraints, after the renumbering
credDelSoftPhs(method, value) ==
    LET cols == credDelCols(method, value)
    IN  Renumber(credDelPhs(cols), 1, Len(cols))

credDelSoftArgs(uid, method, value, now) ==
    <<IntArg(now)>> \o credDelArgs(uid, method, value)

credDelSoftBad(uid, method, value, now) ==
    CredWhereBad(credDelCols(method, value), credDelSoftPhs(method, value),
                 credDelSoftArgs(uid, method, value, now))

credDelSoftRows(view, uid, method, value, now) ==
    {r \in view : CredWhere(r, credDelCols(method, value),
                            credDelSoftPhs(method, value),
                            credDelSoftArgs(uid, method, value, now))}

credDelSoft(view, uid, method, value, now) ==
    LET hit == credDelSoftRows(view, uid, method, value, now)
    IN  (view \ hit) \cup {[r EXCEPT !.deletedat = now] : r \in hit}

\* credDel on the rows its transaction sees: [view, err]
credDel(view, uid, method, value, now) ==
    LET v1 == view \ credDelHardRows(view, uid, method, value)
    IN  IF method = "" THEN [view |-> v1, err |-> ErrNil]
        ELSE IF credDelSoftBad(uid, method, value, now)
        THEN [view |-> v1, err |-> PqBadText]
        ELSE [view |-> credDelSoft(v1, uid, method, value, now), err |-> ErrNil]

\* CredDel run alone on committed table tbl
credDelCall(tbl, uid, method, value, now) ==
    LET res == credDel(tbl, uid, method, value, now)
    IN  IF res.err # ErrNil
        THEN Outcome(tbl, FALSE, res.err, "rollback")
        ELSE Outcome(res.view, FALSE, ErrNil, "commit")

----------------------------------------------------------------------------
(* CredConfirm, CredFail: one statement each, outside any transaction *)

credConfirmRows(view, userId, method) ==
    {r \in view : r.userid = userId /\ r.method = method
                  /\ r.deletedat = 0 /\ ~r.done}

\* (variant: the UPDATE leaves the synthetic key as it was)
credConfirmSetKeepKey(view, userId, method, now) ==
    {IF r.userid = userId /\ r.method = method /\ r.deletedat = 0 /\ ~r.done
     THEN [r EXCEPT !.updatedat = now, !.done = TRUE]
     ELSE r : r \in view}

\* UPDATE credentials SET updatedat=$1,done=true,synthetic=CONCAT(method,':',value) ...
credConfirmSet(view, userId, method, now) ==
    {IF r.userid = userId /\ r.method = method /\ r.deletedat = 0 /\ ~r.done
     THEN [r EXCEPT !.updatedat = now, !.done = TRUE,
                    !.synthetic = r.method \o ":" \o r.value]
     ELSE r : r \in view}

credConfirm(tbl, uid, method, now) ==
    LET userId == DecodeUid(uid)
        after == credConfirmSet(tbl, userId, method, now)
    IN  IF UniqueViolation(after)
        THEN Outcome(tbl, FALSE, IF isDupe(PqUnique) THEN ErrDuplicate ELSE PqUnique,
                     "none")
        ELSE IF Cardinality(credConfirmRows(tbl, userId, method)) < 1
        THEN Outcome(tbl, FALSE, ErrNotFound, "none")
        ELSE Outcome(after, FALSE, ErrNil, "none")

\* UPDATE credentials SET updatedat=$1,retries=retries+1
\*   WHERE userid=$2 AND method=$3 AND done=false
credFailRows(view, userId, method) ==
    {r \in view : r.userid = userId /\ r.method = method /\ ~r.done}

credFail(view, uid, method, now) ==
    {IF r.userid = DecodeUid(uid) /\ r.method = method /\ ~r.done
     THEN [r EXCEPT !.updatedat = now, !.retries = r.retries + 1]
     ELSE r : r \in view}

----------------------------------------------------------------------------
(* Calls run one at a time *)

\* the record kept of a call that returned: its name, whom and what it was
\* about, and what it handed back
Call(op, u, m, v, d, out) ==
    [op |-> op, uid |-> u, method |-> m, value |-> v, done |-> d,
     val |-> out.val, err |-> out.err, end |-> out.end]

NoCall == Call("none", 0, "", "", FALSE, Outcome({}, FALSE, ErrNil, "none"))

Returned(out) ==
    /\ credentials' = out.tbl
    /\ openTx' = IF out.end = "open" THEN openTx + 1 ELSE openTx

\* a connection that has run no call yet
IdleTx == [pc |-> "idle", op |-> "none", uid |-> 0,
           arg |-> Cred(0, "", "", FALSE, "", 0),
           wr |-> {}, rm |-> {}, overlapped |-> FALSE, ret |-> NoCall]

\* topics that exist (messages.topic and dellog.topic reference topics.name)
MsgTopics == {"grpA", "grpB"}

\* a value that is nil
Nil == "<nil>"

\* toJSON and fromJSON: the text written to a JSON column and its value
\* when it is read back; nil is written as the text null and read as nil
toJSON(src) == IF src = Nil THEN [json |-> "null"] ELSE [json |-> "value", v |-> src]
fromJSON(src) == IF src.json = "null" THEN Nil ELSE src.v

\* a row of topics as TopicCreate leaves it: seqid and delid at their defaults
TopicRow(name) ==
    [name |-> name, seqid |-> 0, delid |-> 0, touchedat |-> 0, updatedat |-> 0,
     deletedat |-> 0, owner |-> 0, tags |-> <<>>, public |-> toJSON(Nil)]

\* var dellog struct {...}: its zero value
ZeroDellog == [topic |-> "", deletedfor |-> 0, delid |-> 0, low |-> 0, hi |-> 0]

\* a goroutine that runs no MessageGetDeleted
IdleGetDel == [pc |-> "idle", topic |-> "", forUser |-> 0, rows |-> <<>>, i |-> 0,
               dmsgs |-> <<>>,
               dmsg |-> [DelId |-> 0, Topic |-> "", DeletedFor |-> "",
                         SeqIdRanges |-> <<>>]]

\* no FileDeleteUnused is in progress
IdleFdu == [pc |-> "idle", olderThan |-> 0, limit |-> 0, ids |-> <<>>,
            locations |-> <<>>]

\* &adapter{}: every field has its zero value
NewAdapter == [db |-> "<nil>", dsn |-> "", dbName |-> "", maxResults |-> 0, version |-> 0]

\* no connection call has returned yet
NoAdpCall == [op |-> "none", val |-> 0, err |-> "nil", ret |-> 0]

\* the device ids registered for push notifications
DeviceIds == {"d1", "d2"}

\* a connection with no device transaction in progress
IdleDev == [pc |-> "idle", op |-> "none", uid |-> 0, dev |-> "", snap |-> {},
            rm |-> {}, ins |-> {}]

Init ==
    /\ credentials = {}
    /\ credSeq = 0
    /\ clock = 0
    /\ openTx = 0
    /\ last = NoCall
    /\ tx = [p \in Procs |-> IdleTx]
    /\ messages = {}
    /\ dellog = <<>>
    /\ topics = [name \in MsgTopics |-> TopicRow(name)]
    /\ users = {}
    /\ usertags = {}
    /\ topictags = {}
    /\ subscriptions = {}
    /\ auth = {}
    /\ fileuploads = {}
    /\ filemsglinks = {}
    /\ fdu = IdleFdu
    /\ dellogVar = ZeroDellog
    /\ getDel = [p \in Procs |-> IdleGetDel]
    /\ devices = {}
    /\ devTx = [p \in Procs |-> IdleDev]
    /\ devLast = [d \in DeviceIds |-> 0]
    /\ adapter = NewAdapter
    /\ adpLast = NoAdpCall
    /\ opens = "none"

CredUpsert(u, m, v, d, rsp) ==
    /\ clock < MaxClock
    /\ clock' = clock + 1
    /\ \E cred \in {Cred(u, m, v, d, rsp, clock')} :
       \E out \in {credUpsert(credentials, cred, clock', credSeq + 1)} :
           /\ Returned(out)
           /\ credSeq' = IF credUpsertInserts(credentials, cred)
                         THEN credSeq + 1 ELSE credSeq
           /\ last' = Call("CredUpsert", u, m, v, d, out)
    /\ UNCHANGED tx

CredDel(u, m, v) ==
    /\ clock < MaxClock
    /\ clock' = clock + 1
    /\ \E out \in {credDelCall(credentials, EncodeUid(u), m, v, clock')} :
           /\ Returned(out)
           /\ last' = Call("CredDel", u, m, v, FALSE, out)
    /\ UNCHANGED <<credSeq, tx>>

CredConfirm(u, m) ==
    /\ clock < MaxClock
    /\ clock' = clock + 1
    /\ \E out \in {credConfirm(credentials, EncodeUid(u), m, clock')} :
           /\ Returned(out)
           /\ last' = Call("CredConfirm", u, m, "", FALSE, out)
    /\ UNCHANGED <<credSeq, tx>>

CredFail(u, m) ==
    /\ clock < MaxClock
    /\ clock' = clock + 1
    /\ \E out \in {Outcome(credFail(credentials, EncodeUid(u), m, clock'),
                           FALSE, ErrNil, "none")} :
           /\ Returned(out)
           /\ last' = Call("CredFail", u, m, "", FALSE, out)
    /\ UNCHANGED <<credSeq, tx>>

CredUpsertStep ==
    /\ UNCHANGED exceptCred
    /\ \E u \in Users, m \in Methods, v \in Values, d \in BOOLEAN, rsp \in Resps : CredUpsert(u, m, v, d, rsp)

CredDelStep ==
    /\ UNCHANGED exceptCred
    /\ \E u \in Users, m \in Methods \cup {""}, v \in Values \cup {""} : (m = "" => v = "") /\ CredDel(u, m, v)

CredConfirmStep ==
    /\ UNCHANGED exceptCred
    /\ \E u \in Users, m \in Methods : CredConfirm(u, m)

CredFailStep ==
    /\ UNCHANGED exceptCred
    /\ \E u \in Users, m \in Methods : CredFail(u, m)

Next ==
    \/ CredUpsertStep
    \/ CredDelStep
    \/ CredConfirmStep
    \/ CredFailStep

Spec == Init /\ [][Next]_vars

----------------------------------------------------------------------------
(* Calls interleaved statement by statement, each in its own transaction on *)
(* its own connection, at read-committed isolation.  tx[p].wr holds the row *)
(* versions transaction p has written and not yet committed, tx[p].rm the   *)
(* ids of the rows it has deleted; both are row locks until p ends.         *)

Locked(p) == Ids(tx[p].wr) \cup tx[p].rm

\* the rows a statement of p sees: what is committed, overlaid with p's writes
View(p) == {r \in credentials : r.id \notin Locked(p)} \cup tx[p].wr

\* a statement of p that must lock `rows` waits while another transaction holds one
Blocked(p, rows) == \E q \in Procs \ {p} : Ids(rows) \cap Locked(q) # {}

\* a statement of p that writes key `synth` waits while another transaction holds
\* an uncommitted row of that key, or a lock on the committed row of that key
KeyBlocked(p, synth) ==
    \/ \E q \in Procs \ {p} : \E r \in tx[q].wr : r.synthetic = synth
    \/ Blocked(p, {r \in View(p) : r.synthetic = synth})

\* p's transaction after a statement turned what it sees into `after`,
\* having locked `rows`
Written(p, rows, after) ==
    [tx[p] EXCEPT !.wr = {r \in after : r.id \in Ids(rows) \cup Ids(tx[p].wr)},
                  !.rm = (tx[p].rm \cup Ids(rows) \cup Ids(tx[p].wr)) \ Ids(after)]

TxCall(p, out) ==
    Call(tx[p].op, tx[p].uid, tx[p].arg.method, tx[p].arg.value, tx[p].arg.done, out)

\* p's call returns: the connection is free again and keeps the call's result
Finished(p, out) ==
    [tx[p] EXCEPT !.pc = "done", !.wr = {}, !.rm = {}, !.ret = TxCall(p, out)]

TxReturn(p, out) ==
    /\ tx' = [tx EXCEPT ![p] = Finished(p, out)]
    /\ last' = TxCall(p, out)
    /\ credentials' = out.tbl
    /\ openTx' = IF out.end = "open" THEN openTx + 1 ELSE openTx

TxGoto(p, pc, rows, after) ==
    /\ tx' = [tx EXCEPT ![p] = [Written(p, rows, after) EXCEPT !.pc = pc]]
    /\ UNCHANGED <<credentials, openTx, last>>

Running(p) == tx[p].pc \notin {"idle", "done"}

\* a.db.Beginx() and the reading of the clock; `overlapped` remembers that the
\* call ran while another call was in progress
TxBegin(p, op, u, arg, pc) ==
    /\ ~Running(p)
    /\ clock < MaxTxCalls
    /\ clock' = clock + 1
    /\ tx' = [q \in Procs |->
                IF q = p
                THEN [IdleTx EXCEPT !.pc = pc, !.op = op, !.uid = u, !.arg = arg,
                         !.overlapped = \E o \in Procs \ {p} : Running(o)]
                ELSE [tx[q] EXCEPT !.overlapped = @ \/ Running(q)]]
    /\ UNCHANGED <<credentials, credSeq, openTx, last>>

TxCredUpsertBegin(p, u, m, v, d, rsp) ==
    TxBegin(p, "CredUpsert", u, Cred(u, m, v, d, rsp, clock + 1),
            IF d THEN "shadow" ELSE "select")

Synth0(arg) == arg.method \o ":" \o arg.value
Synth1(arg) == arg.user \o ":" \o Synth0(arg)

\* tx.Get(&done, "SELECT done ...") and the return of ErrDuplicate
TxCredUpsertSelect(p) ==
    /\ tx[p].pc = "select"
    /\ IF credSelectDone(View(p), Synth0(tx[p].arg)) # {}
       THEN TxReturn(p, Outcome(credentials, FALSE, ErrDuplicate, "open"))
       ELSE TxGoto(p, "deactivate", {}, View(p))
    /\ UNCHANGED <<credSeq, clock>>

TxCredUpsertDeactivate(p) ==
    /\ tx[p].pc = "deactivate"
    /\ \E arg \in {tx[p].arg} :
       \E rows \in {credDeactivateRows(View(p), decodeUidString(arg.user), arg.method)} :
           /\ ~Blocked(p, rows)
           /\ TxGoto(p, "revive", rows,
                     credDeactivate(View(p), arg.createdat,
                                    decodeUidString(arg.user), arg.method))
    /\ UNCHANGED <<credSeq, clock>>

TxCredUpsertRevive(p) ==
    /\ tx[p].pc = "revive"
    /\ \E arg \in {tx[p].arg} :
       \E rows \in {credReviveRows(View(p), Synth1(arg))} :
           /\ ~Blocked(p, rows)
           /\ TxGoto(p, IF rows # {} THEN "commit" ELSE "insert", rows,
                     credRevive(View(p), arg, Synth1(arg)))
    /\ UNCHANGED <<credSeq, clock>>

TxCredUpsertShadow(p) ==
    /\ tx[p].pc = "shadow"
    /\ \E rows \in {credDeleteShadowRows(View(p), Synth1(tx[p].arg))} :
           /\ ~Blocked(p, rows)
           /\ TxGoto(p, "insert", rows, credDeleteShadow(View(p), Synth1(tx[p].arg)))
    /\ UNCHANGED <<credSeq, clock>>

\* the INSERT; on an error the deferred function rolls back
TxCredUpsertInsert(p) ==
    /\ tx[p].pc = "insert"
    /\ \E arg \in {tx[p].arg} :
       \E synth \in {IF arg.done THEN Synth0(arg) ELSE Synth1(arg)} :
       \E out \in {credInsert(credentials, View(p), arg, synth,
                              decodeUidString(arg.user), credSeq + 1)} :
           /\ ~KeyBlocked(p, synth)
           /\ IF out.err # ErrNil
              THEN TxReturn(p, out)
              ELSE /\ tx' = [tx EXCEPT ![p] =
                               [tx[p] EXCEPT !.pc = "commit",
                                   !.wr = @ \cup {credNewRow(credSeq + 1, arg, synth,
                                                     decodeUidString(arg.user))},
                                   !.ret = TxCall(p, out)]]
                   /\ UNCHANGED <<credentials, openTx, last>>
    /\ credSeq' = credSeq + 1
    /\ UNCHANGED clock

\* tx.Commit()
TxCommit(p) ==
    /\ tx[p].pc = "commit"
    /\ TxReturn(p, Outcome(View(p), tx[p].ret.val, ErrNil, "commit"))
    /\ UNCHANGED <<credSeq, clock>>

TxCredDelBegin(p, u, m, v) ==
    TxBegin(p, "CredDel", u, Cred(u, m, v, FALSE, "", clock + 1), "delhard")

\* Case 1 / Case 2.1 of credDel
TxCredDelHard(p) ==
    /\ tx[p].pc = "delhard"
    /\ \E arg \in {tx[p].arg} :
       \E rows \in {credDelHardRows(View(p), ParseUid(arg.user), arg.method,
                                    arg.value)} :
           /\ ~Blocked(p, rows)
           /\ TxGoto(p, IF arg.method = "" THEN "commit" ELSE "delsoft", rows,
                     View(p) \ rows)
    /\ UNCHANGED <<credSeq, clock>>

\* Case 2.2 of credDel; on an error CredDel's deferred function rolls back
TxCredDelSoft(p) ==
    /\ tx[p].pc = "delsoft"
    /\ \E arg \in {tx[p].arg} :
       IF credDelSoftBad(ParseUid(arg.user), arg.method, arg.value, arg.createdat)
       THEN TxReturn(p, Outcome(credentials, FALSE, PqBadText, "rollback"))
       ELSE \E rows \in {credDelSoftRows(View(p), ParseUid(arg.user), arg.method,
                                         arg.value, arg.createdat)} :
                /\ ~Blocked(p, rows)
                /\ TxGoto(p, "commit", rows,
                          credDelSoft(View(p), ParseUid(arg.user), arg.method,
                                      arg.value, arg.createdat))
    /\ UNCHANGED <<credSeq, clock>>

\* CredConfirm: a single statement on a pooled connection
TxCredConfirm(u, m) ==
    /\ clock < MaxTxCalls
    /\ clock' = clock + 1
    /\ \E rows \in {credConfirmRows(credentials, u, m)} :
       \E out \in {credConfirm(credentials, EncodeUid(u), m, clock')} :
           /\ \A q \in Procs : Ids(rows) \cap Locked(q) = {}
           /\ \A r \in rows : \A q \in Procs :
                 /\ \A w \in tx[q].wr : w.synthetic # r.method \o ":" \o r.value
                 /\ \A c \in credentials :
                       c.synthetic = r.method \o ":" \o r.value => c.id \notin Locked(q)
           /\ Returned(out)
           /\ last' = Call("CredConfirm", u, m, "", FALSE, out)
    /\ UNCHANGED <<credSeq, tx>>

\* CredFail: a single statement on a pooled connection
TxCredFail(u, m) ==
    /\ clock < MaxTxCalls
    /\ clock' = clock + 1
    /\ \E rows \in {credFailRows(credentials, u, m)} :
       \E out \in {Outcome(credFail(credentials, EncodeUid(u), m, clock'),
                           FALSE, ErrNil, "none")} :
           /\ \A q \in Procs : Ids(rows) \cap Locked(q) = {}
           /\ Returned(out)
           /\ last' = Call("CredFail", u, m, "", FALSE, out)
    /\ UNCHANGED <<credSeq, tx>>

TxCredUpsertBeginStep ==
    /\ UNCHANGED exceptCred
    /\ \E p \in Procs, u \in Users, m \in TxMethods, v \in Values, d \in BOOLEAN, rsp \in TxResps : TxCredUpsertBegin(p, u, m, v, d, rsp)

TxCredDelBeginStep ==
    /\ UNCHANGED exceptCred
    /\ \E p \in Procs, u \in Users, m \in TxMethods \cup {""}, v \in Values \cup {""} : (m = "" => v = "") /\ TxCredDelBegin(p, u, m, v)

TxCredUpsertSelectStep ==
    /\ UNCHANGED exceptCred
    /\ \E p \in Procs : TxCredUpsertSelect(p)

TxCredUpsertDeactivateStep ==
    /\ UNCHANGED exceptCred
    /\ \E p \in Procs : TxCredUpsertDeactivate(p)

TxCredUpsertReviveStep ==
    /\ UNCHANGED exceptCred
    /\ \E p \in Procs : TxCredUpsertRevive(p)

TxCredUpsertShadowStep ==
    /\ UNCHANGED exceptCred
    /\ \E p \in Procs : TxCredUpsertShadow(p)

TxCredUpsertInsertStep ==
    /\ UNCHANGED exceptCred
    /\ \E p \in Procs : TxCredUpsertInsert(p)

TxCredDelHardStep ==
    /\ UNCHANGED exceptCred
    /\ \E p \in Procs : TxCredDelHard(p)

TxCredDelSoftStep ==
    /\ UNCHANGED exceptCred
    /\ \E p \in Procs : TxCredDelSoft(p)

TxCommitStep ==
    /\ UNCHANGED exceptCred
    /\ \E p \in Procs : TxCommit(p)

TxCredConfirmStep ==
    /\ UNCHANGED exceptCred
    /\ \E u \in Users, m \in TxMethods : TxCredConfirm(u, m)

TxCredFailStep ==
    /\ UNCHANGED exceptCred
    /\ \E u \in Users, m \in TxMethods : TxCredFail(u, m)

NextTx ==
    \/ TxCredUpsertBeginStep
    \/ TxCredUpsertSelectStep
    \/ TxCredUpsertDeactivateStep
    \/ TxCredUpsertReviveStep
    \/ TxCredUpsertShadowStep
    \/ TxCredUpsertInsertStep
    \/ TxCredDelBeginStep
    \/ TxCredDelHardStep
    \/ TxCredDelSoftStep
    \/ TxCommitStep
    \/ TxCredConfirmStep
    \/ TxCredFailStep

SpecTx == Init /\ [][NextTx]_vars

----------------------------------------------------------------------------
(* Credential lifecycle: properties *)

\* the rows of one user, method and value
CredRows(tbl, u, m, v) == {r \in tbl : r.userid = u /\ r.method = m /\ r.value = v}

\* the active unconfirmed rows of one user and method
CredActive(tbl, u, m) ==
    {r \in tbl : r.userid = u /\ r.method = m /\ ~r.done /\ r.deletedat = 0}

\* C1: in every state reachable by CredUpsert, CredConfirm, CredFail and
\* CredDel calls of any users, at most one credentials record with done=true
\* exists for each (method, value) pair.
C1_OneConfirmedPerValue ==
    \A r, s \in credentials :
        (r.done /\ s.done /\ r.method = s.method /\ r.value = s.value) => r = s

\* a second confirmation of a value that is already confirmed was refused
C1_Witness ==
    /\ last.err = PqUnique
    /\ \E r \in credentials :
          r.done /\ r.method = last.method /\ r.userid # last.uid

\* C2: when two users concurrently call CredUpsert with Done=true for the same
\* (method, value), exactly one call commits its confirmed record and the other
\* returns ErrDuplicate and leaves no record of its own.
C2_ConcurrentConfirmedUpsert ==
    \A p, q \in Procs :
        (/\ p # q
         /\ tx[p].pc = "done" /\ tx[q].pc = "done"
         /\ tx[p].overlapped /\ tx[q].overlapped
         /\ tx[p].op = "CredUpsert" /\ tx[q].op = "CredUpsert"
         /\ tx[p].arg.done /\ tx[q].arg.done
         /\ tx[p].arg.method = tx[q].arg.method
         /\ tx[p].arg.value = tx[q].arg.value
         /\ tx[p].uid # tx[q].uid
         /\ tx[p].ret.err = ErrNil)
        => /\ tx[q].ret.err = ErrDuplicate
           /\ CredRows(credentials, tx[q].uid, tx[q].arg.method, tx[q].arg.value) = {}
           /\ \E r \in credentials :
                 r.done /\ r.userid = tx[p].uid /\ r.method = tx[p].arg.method
                 /\ r.value = tx[p].arg.value

\* C3: for every user and method at most one unconfirmed, not soft-deleted
\* record exists in every reachable state, interleaved CredUpsert(Done=false)
\* transactions included.
C3_OneActivePerMethod ==
    \A u \in Users, m \in Methods : Cardinality(CredActive(credentials, u, m)) <= 1

\* C4: CredUpsert with Done=false for a (method, value) that has a confirmed
\* record returns ErrDuplicate and leaves every credentials record as it was.
C4_UnconfirmedUpsertOfConfirmed ==
    [][\A u \in Users, m \in Methods, v \in Values, rsp \in Resps :
          (/\ CredUpsert(u, m, v, FALSE, rsp)
           /\ \E r \in credentials : r.done /\ r.method = m /\ r.value = v)
          => (last'.err = ErrDuplicate /\ credentials' = credentials)]_vars

\* an unconfirmed upsert was refused because the value is confirmed
C4_Witness ==
    /\ last.op = "CredUpsert" /\ ~last.done /\ last.err = ErrDuplicate
    /\ \E r \in credentials : r.done /\ r.method = last.method /\ r.value = last.value

\* C5: a CredUpsert with Done=false for a user, method and value that already
\* has an unconfirmed row (active or soft-deleted; the value not confirmed by
\* anyone) leaves exactly one row for them: the existing row, with deletedat
\* cleared and resp and updatedat replaced, and no row is inserted.
C5_SecondUpsertRevives ==
    [][\A u \in Users, m \in Methods, v \in Values, rsp \in Resps :
          (/\ CredUpsert(u, m, v, FALSE, rsp)
           /\ CredRows(credentials, u, m, v) # {}
           /\ \A r \in credentials : r.method = m /\ r.value = v => ~r.done)
          => /\ Cardinality(CredRows(credentials', u, m, v)) = 1
             /\ Ids(CredRows(credentials', u, m, v)) = Ids(CredRows(credentials, u, m, v))
             /\ \A r \in CredRows(credentials', u, m, v) :
                   r.deletedat = 0 /\ r.resp = rsp /\ r.updatedat = clock' /\ ~r.done
             /\ Ids(credentials') = Ids(credentials)
             /\ credSeq' = credSeq
             /\ last'.err = ErrNil /\ ~last'.val]_vars

\* a row written by an earlier call was revived by the last one
C5_Witness ==
    /\ last.op = "CredUpsert" /\ ~last.done /\ last.err = ErrNil /\ ~last.val
    /\ \E r \in CredRows(credentials, last.uid, last.method, last.value) :
          r.createdat < clock /\ r.updatedat = clock /\ r.deletedat = 0

\* C6: CredUpsert(Done=false), CredFail and CredDel(uid, method, value) never
\* lower or remove a retry budget: an unconfirmed record whose retries counter
\* is n >= 1 is followed by a record of the same user, method and value whose
\* counter is >= n.
C6_BudgetKept ==
    [][((\E u \in Users, m \in Methods, v \in Values, rsp \in Resps :
             CredUpsert(u, m, v, FALSE, rsp))
        \/ (\E u \in Users, m \in Methods : CredFail(u, m))
        \/ (\E u \in Users, m \in Methods, v \in Values : CredDel(u, m, v)))
       => \A r \in credentials :
             (~r.done /\ r.retries >= 1)
             => \E n \in CredRows(credentials', r.userid, r.method, r.value) :
                   n.retries >= r.retries]_vars

\* CredDel was called for a record with a used retry budget
C6_Witness ==
    /\ last.op = "CredDel"
    /\ \E r \in CredRows(credentials, last.uid, last.method, last.value) :
          ~r.done /\ r.retries >= 1

\* C7: CredDel(uid, method, value) on an existing record removes the row when
\* the record is confirmed or its retries counter is 0, and otherwise leaves
\* the row with deletedat set and its retries counter unchanged.
C7_CredDelHardOrSoft ==
    [][\A u \in Users, m \in Methods, v \in Values :
          CredDel(u, m, v)
          => \A r \in CredRows(credentials, u, m, v) :
                IF r.done \/ r.retries = 0
                THEN r.id \notin Ids(credentials')
                ELSE \E n \in credentials' :
                        n.id = r.id /\ n.deletedat # 0 /\ n.retries = r.retries]_vars

CredKeyTaken(tbl, r) ==
    \E c \in tbl : c.id # r.id /\ c.synthetic = r.method \o ":" \o r.value

RetriesOf(tbl, r) ==
    IF \E n \in tbl : n.id = r.id
    THEN (CHOOSE n \in tbl : n.id = r.id).retries
    ELSE -1

\* C9: CredFail(uid, method) increments the retries counter of the user's
\* active unconfirmed record of that method only; soft-deleted unconfirmed
\* records, confirmed records and other users' and methods' records keep theirs.
C9_FailActiveOnly ==
    [][\A u \in Users, m \in Methods :
          CredFail(u, m)
          => \A r \in credentials :
                RetriesOf(credentials', r) =
                    IF r \in CredActive(credentials, u, m)
                    THEN r.retries + 1 ELSE r.retries]_vars

----------------------------------------------------------------------------
(* Tables messages and dellog *)

\* largest seqid a topic hands out
MaxSeq == 3

\* rows the deletion log grows to
MaxDellog == 2

\* largest id of a deletion event
MaxDelId == 2

\* the topic deletions are asked for
DelTopics == {"grpA"}

\* the user sending messages
MsgSenders == {1}

defaultMaxResults == 1024

\* a t.Message as the caller passes it
Msg(topic, seq, u, now) ==
    [Topic |-> topic, SeqId |-> seq, From |-> UserStr(u), Head |-> "h",
     Content |-> "c", CreatedAt |-> now]

\* UNIQUE(topic, seqid): tbl holds a row with the topic and seqid of `row`
msgUniqueViolation(tbl, row) ==
    \E r \in tbl : r.topic = row.topic /\ r.seqid = row.seqid

\* MessageSave: one INSERT outside any transaction; delid defaults to 0
MessageSaveRow(msg) ==
    [topic |-> msg.Topic, seqid |-> msg.SeqId,
     from |-> DecodeUid(ParseUid(msg.From)), head |-> msg.Head,
     content |-> msg.Content, createdat |-> msg.CreatedAt, deletedat |-> 0,
     delid |-> 0]

messageSave(tbl, msg) ==
    IF msgUniqueViolation(tbl, MessageSaveRow(msg))
    THEN Outcome(tbl, FALSE, PqUnique, "none")
    ELSE Outcome(tbl \cup {MessageSaveRow(msg)}, FALSE, ErrNil, "none")

\* t.QueryOpt; a zero field is one the caller did not set
QueryOpt(since, before, limit) == [Since |-> since, Before |-> before, Limit |-> limit]

\* (variant: the join does not compare the user the range was deleted for)
dellogHidesAnyUser(d, m, unum) ==
    d.topic = m.topic /\ m.seqid >= d.low /\ m.seqid <= d.hi - 1

\* ON d.topic=m.topic AND m.seqid BETWEEN d.low AND d.hi-1 AND d.deletedfor=$1
dellogHides(d, m, unum) ==
    d.topic = m.topic /\ m.seqid >= d.low /\ m.seqid <= d.hi - 1 /\ d.deletedfor = unum

\* the rows MessageGetAll selects before ordering; upper = 1 << 31 when
\* opts.Before is not set, above every seqid handed out here
msgGetAllRows(msgs, dl, topic, unum, opts) ==
    {m \in msgs :
        /\ m.delid = 0
        /\ m.topic = topic
        /\ m.seqid >= (IF opts.Since > 0 THEN opts.Since ELSE 0)
        /\ (opts.Before > 0 => m.seqid <= opts.Before - 1)
        /\ \A k \in 1..Len(dl) : ~dellogHides(dl[k], m, unum)}

\* ORDER BY m.seqid DESC
RECURSIVE OrderBySeqIdDesc(_)
OrderBySeqIdDesc(rows) ==
    IF rows = {} THEN <<>>
    ELSE LET top == CHOOSE m \in rows : \A q \in rows : q.seqid <= m.seqid
         IN  <<top>> \o OrderBySeqIdDesc(rows \ {top})

\* a row scanned into a t.Message; From is re-encoded
msgScan(m) ==
    [Topic |-> m.topic, SeqId |-> m.seqid, From |-> UidString(EncodeUid(m.from)),
     Head |-> m.head, Content |-> m.content, CreatedAt |-> m.createdat,
     DeletedAt |-> m.deletedat, DelId |-> m.delid]

\* MessageGetAll on given tables, with the adapter's maxResults
msgGetAll(msgs, dl, maxResults, topic, forUser, opts) ==
    LET limit == IF opts.Limit > 0 /\ opts.Limit < maxResults
                 THEN opts.Limit ELSE maxResults
        sorted == OrderBySeqIdDesc(msgGetAllRows(msgs, dl, topic,
                                                 DecodeUid(forUser), opts))
        n == IF Len(sorted) < limit THEN Len(sorted) ELSE limit
    IN  [k \in 1..n |-> msgScan(sorted[k])]

MessageGetAll(topic, forUser, opts) ==
    msgGetAll(messages, dellog, defaultMaxResults, topic, forUser, opts)

\* t.Range; Hi = 0 stands for the single id Low
Range(low, hi) == [Low |-> low, Hi |-> hi]

\* *t.DelMessage; nil when the whole topic is being deleted
DelMessage(delId, deletedFor, ranges) ==
    [nil |-> FALSE, DelId |-> delId, DeletedFor |-> deletedFor, SeqIdRanges |-> ranges]

NilDelMessage == [nil |-> TRUE, DelId |-> 0, DeletedFor |-> "", SeqIdRanges |-> <<>>]

\* if rng.Hi == 0 { rng.Hi = rng.Low + 1 }
RangeHi(rng) == IF rng.Hi = 0 THEN rng.Low + 1 ELSE rng.Hi

\* one row per distinct range: a range given twice is logged once
dellogRowsDistinct(topic, forUser, delId, ranges) ==
    LET Fresh(k) == \A j \in 1..(k - 1) : ranges[j] # ranges[k]
        kept == {k \in 1..Len(ranges) : Fresh(k)}
        Nth(i) == CHOOSE k \in kept : Cardinality({j \in kept : j < k}) = i - 1
    IN  [i \in 1..Cardinality(kept) |->
            [topic |-> topic, deletedfor |-> forUser, delid |-> delId,
             low |-> ranges[Nth(i)].Low, hi |-> RangeHi(ranges[Nth(i)])]]

\* the rows the prepared INSERT INTO dellog writes, one per range
dellogRows(topic, forUser, delId, ranges) ==
    [k \in 1..Len(ranges) |->
        [topic |-> topic, deletedfor |-> forUser, delid |-> delId,
         low |-> ranges[k].Low, hi |-> RangeHi(ranges[k])]]

\* seqCount += rng.Hi - rng.Low
RECURSIVE seqCount(_)
seqCount(ranges) ==
    IF ranges = <<>> THEN 0
    ELSE (RangeHi(Head(ranges)) - Head(ranges).Low) + seqCount(Tail(ranges))

\* the ids appended to args for the IN list
RECURSIVE hardIds(_)
hardIds(ranges) ==
    IF ranges = <<>> THEN <<>>
    ELSE LET r == Head(ranges)
         IN  (IF r.Hi = 0 THEN <<IntArg(r.Low)>>
              ELSE [k \in 1..(IF r.Hi > r.Low THEN r.Hi - r.Low ELSE 0) |->
                        IntArg(r.Low + k - 1)])
             \o hardIds(Tail(ranges))

\* len(toDel.SeqIdRanges) > 1 || toDel.SeqIdRanges[0].Hi == 0
hardInList(ranges) == Len(ranges) > 1 \/ ranges[1].Hi = 0

\* columns, placeholder numbers and arguments of `where`, in textual order
hardCols(ranges) ==
    IF hardInList(ranges)
    THEN <<"topic">> \o [k \in 1..seqCount(ranges) |-> "seqid"]
    ELSE <<"topic", "seqid", "seqid">>

hardPhs(ranges) ==
    IF hardInList(ranges)
    THEN <<1>> \o [k \in 1..seqCount(ranges) |-> k]
    ELSE <<1, 2, 3>>

hardArgs(topic, ranges) ==
    IF hardInList(ranges)
    THEN <<StrArg(topic)>> \o hardIds(ranges)
    ELSE <<StrArg(topic), IntArg(ranges[1].Low), IntArg(ranges[1].Hi - 1)>>

hardQueryVar(ranges) == IF hardInList(ranges) THEN seqCount(ranges) ELSE 2

\* strings.Replace(where, "$i", "$(i+by)", 1) on the placeholder numbers
ReplaceFirstBy(phs, i, by) ==
    IF \E k \in 1..Len(phs) : phs[k] = i
    THEN LET k == CHOOSE j \in 1..Len(phs) :
                      phs[j] = i /\ \A h \in 1..(j - 1) : phs[h] # i
         IN  [phs EXCEPT ![k] = i + by]
    ELSE phs

\* for i := 1; i <= queryVar; i++ { where = strings.Replace(...) }
RECURSIVE RenumberBy(_, _, _, _)
RenumberBy(phs, i, queryVar, by) ==
    IF i > queryVar THEN phs
    ELSE RenumberBy(ReplaceFirstBy(phs, i, by), i + 1, queryVar, by)

PqBadParams == "pq: parameters do not match the statement"

ColType(col) ==
    IF col \in {"topic", "name"} THEN "text"
    ELSE IF col \in {"deletedat", "touchedat", "updatedat"} THEN "timestamp"
    ELSE IF col = "tags" THEN "json" ELSE "int"

\* the engine rejects a statement whose placeholders are not exactly
\* $1..$nargs, or that uses one placeholder for columns of different types
StmtBad(phs, cols, nargs) ==
    \/ {phs[k] : k \in 1..Len(phs)} # 1..nargs
    \/ \E j, k \in 1..Len(phs) : phs[j] = phs[k] /\ ColType(cols[j]) # ColType(cols[k])

\* placeholders, columns and arguments of the UPDATE of the hard delete
hardUpdatePhs(ranges) ==
    <<1, 2>> \o RenumberBy(hardPhs(ranges), 1, hardQueryVar(ranges), 2)

hardUpdateCols(ranges) == <<"deletedat", "delid">> \o hardCols(ranges)

hardUpdateArgs(topic, toDel, now) ==
    <<IntArg(now), IntArg(toDel.DelId)>> \o hardArgs(topic, toDel.SeqIdRanges)

\* the rows `where` selects, arguments bound by placeholder number
hardRows(msgs, inList, phs, args) ==
    {m \in msgs :
        /\ m.topic = args[phs[1]].s
        /\ IF inList
           THEN \E k \in 2..Len(phs) : m.seqid = args[phs[k]].v
           ELSE m.seqid >= args[phs[2]].v /\ m.seqid <= args[phs[3]].v
        /\ m.deletedat = 0}

\* UPDATE messages SET deletedAt=$1, delId=$2, head=NULL, content=NULL WHERE ...
hardUpdate(msgs, topic, toDel, now) ==
    LET phs == hardUpdatePhs(toDel.SeqIdRanges)
        args == hardUpdateArgs(topic, toDel, now)
        hit == hardRows(msgs, hardInList(toDel.SeqIdRanges),
                        SubSeq(phs, 3, Len(phs)), args)
    IN  (msgs \ hit) \cup
        {[m EXCEPT !.deletedat = args[1].v, !.delid = args[2].v,
                   !.head = "", !.content = ""] : m \in hit}

\* what messageDeleteList leaves in its transaction: [messages, dellog, err]
MsgResult(msgs, dl, err) == [messages |-> msgs, dellog |-> dl, err |-> err]

ErrPanic == "panic: index out of range"

NotOfTopic(dl, topic) ==
    LET Other(d) == d.topic # topic IN SelectSeq(dl, Other)

messageDeleteList(msgs, dl, topic, toDel, now) ==
    IF toDel.nil
    THEN \* DELETE FROM dellog WHERE topic=$1, then
         \* DELETE FROM messages WHERE topic=$2 with the one argument
         IF StmtBad(<<2>>, <<"topic">>, 1)
         THEN MsgResult(msgs, NotOfTopic(dl, topic), PqBadParams)
         ELSE MsgResult({m \in msgs : m.topic # topic}, NotOfTopic(dl, topic), ErrNil)
    ELSE LET ranges == toDel.SeqIdRanges
             logged == dl \o dellogRows(topic, decodeUidString(toDel.DeletedFor),
                                        toDel.DelId, ranges)
         IN  IF toDel.DeletedFor # "" THEN MsgResult(msgs, logged, ErrNil)
             ELSE IF Len(ranges) = 0 THEN MsgResult(msgs, logged, ErrPanic)
             ELSE IF StmtBad(hardPhs(ranges), hardCols(ranges),
                             Len(hardArgs(topic, ranges)))
             THEN MsgResult(msgs, logged, PqBadParams)
             ELSE IF StmtBad(hardUpdatePhs(ranges), hardUpdateCols(ranges),
                             Len(hardUpdateArgs(topic, toDel, now)))
             THEN MsgResult(msgs, logged, PqBadParams)
             ELSE MsgResult(hardUpdate(msgs, topic, toDel, now), logged, ErrNil)

\* a call on messages or dellog, with its result; `first` is the number of
\* dellog rows there were when the call began
MsgCall(op, topic, deletedFor, n, first, err, end) ==
    [op |-> op, topic |-> topic, deletedFor |-> deletedFor, n |-> n,
     first |-> first, err |-> err, end |-> end]

MessageSave(msg) ==
    /\ last.err # ErrPanic
    /\ \E out \in {messageSave(messages, msg)} :
           /\ messages' = out.tbl
           /\ last' = MsgCall("MessageSave", msg.Topic, "", 0, Len(dellog),
                              out.err, out.end)
    /\ UNCHANGED <<dellog, openTx>>

\* MessageDeleteList: begin, messageDeleteList, then commit; the deferred
\* function rolls back when err is set.  A panic passes it with err unset and
\* ends the process: no call follows it.
MessageDeleteList(topic, toDel) ==
    /\ last.err # ErrPanic
    /\ \E res \in {messageDeleteList(messages, dellog, topic, toDel, clock + 1)} :
           /\ messages' = IF res.err = ErrNil THEN res.messages ELSE messages
           /\ dellog' = IF res.err = ErrNil THEN res.dellog ELSE dellog
           /\ openTx' = IF res.err = ErrPanic THEN openTx + 1 ELSE openTx
           /\ last' = MsgCall("MessageDeleteList", topic, toDel.DeletedFor,
                              Len(toDel.SeqIdRanges), Len(dellog), res.err,
                              IF res.err = ErrNil THEN "commit"
                              ELSE IF res.err = ErrPanic THEN "open"
                              ELSE "rollback")

\* the ranges callers pass
Ranges ==
    {Range(low, hi) : low \in 1..MaxSeq, hi \in 0..(MaxSeq + 1)} \cap
    {r \in [Low : 1..MaxSeq, Hi : 0..(MaxSeq + 1)] :
        r.Hi = 0 \/ (r.Hi > r.Low /\ r.Hi <= r.Low + 2)}

RangeLists(n) ==
    {<<>>} \cup (IF n >= 1 THEN {<<r>> : r \in Ranges} ELSE {})
           \cup (IF n >= 2 THEN {<<r, q>> : r, q \in Ranges} ELSE {})

\* DeletedFor: everyone, a user, or a text that is no user id
DeletedFors == {""} \cup {UserStr(u) : u \in Users} \cup {"?"}

MessageSaveStep ==
    /\ UNCHANGED exceptMsg
    /\ \E topic \in MsgTopics, seq \in 1..MaxSeq, u \in MsgSenders :
           /\ seq <= Cardinality({m \in messages : m.topic = topic}) + 1
           /\ MessageSave(Msg(topic, seq, u, clock + 1))

MessageDeleteListStep ==
    /\ UNCHANGED exceptMsg
    /\ \E topic \in DelTopics :
           \/ MessageDeleteList(topic, NilDelMessage)
           \/ \E delId \in 1..MaxDelId, deletedFor \in DeletedFors,
                 ranges \in RangeLists(MaxDellog - Len(dellog)) :
                  MessageDeleteList(topic, DelMessage(delId, deletedFor, ranges))

NextMsg ==
    \/ MessageSaveStep
    \/ MessageDeleteListStep

SpecMsg == Init /\ [][NextMsg]_vars

----------------------------------------------------------------------------
(* Messages: properties *)

\* the query options a reader may pass
MsgQueryOpts ==
    {QueryOpt(since, before, limit) :
        since \in 0..(MaxSeq - 1), before \in {0, MaxSeq, MaxSeq + 1},
        limit \in 0..(MaxSeq - 1)}

SeqIds(res) == {res[k].SeqId : k \in 1..Len(res)}

\* the rows of the deletion log written for user u in a topic
DeletedFor(topic, u) ==
    {k \in 1..Len(dellog) : dellog[k].topic = topic /\ dellog[k].deletedfor = u}

InRange(d, seq) == d.low <= seq /\ seq < d.hi

\* C10: for every range [low, hi) that MessageDeleteList has logged for a
\* user U in a topic, MessageGetAll returns to U, under any query options, no
\* message of the topic whose seqId lies in the range, and returns to every
\* other user V each stored message of the range that is neither deleted for
\* everyone nor covered by a range logged for V.
C10_DeletedForUserOnly ==
    \A t \in MsgTopics, u \in Users :
        DeletedFor(t, u) # {} =>
        /\ \A o \in MsgQueryOpts :
              \A s \in SeqIds(MessageGetAll(t, EncodeUid(u), o)) :
                  \A k \in DeletedFor(t, u) : ~InRange(dellog[k], s)
        /\ \A v \in Users \ {u} : \A m \in messages :
              (/\ m.topic = t /\ m.delid = 0
               /\ \E k \in DeletedFor(t, u) : InRange(dellog[k], m.seqid)
               /\ \A j \in DeletedFor(t, v) : ~InRange(dellog[j], m.seqid))
              => m.seqid \in SeqIds(MessageGetAll(t, EncodeUid(v), QueryOpt(0, 0, 0)))

\* a deletion for user 1 has just covered messages 2 and 3 of a topic holding
\* 1..3: user 1 reads message 1 only, user 2 still reads all three
C10_Witness ==
    /\ last.op = "MessageDeleteList" /\ last.err = ErrNil
    /\ last.deletedFor = UserStr(1) /\ last.n = 1
    /\ Len(dellog) = last.first + 1
    /\ dellog[Len(dellog)].low = 2 /\ dellog[Len(dellog)].hi = 4
    /\ SeqIds(MessageGetAll(last.topic, EncodeUid(1), QueryOpt(0, 0, 0))) = {1}
    /\ SeqIds(MessageGetAll(last.topic, EncodeUid(2), QueryOpt(0, 0, 0))) = {1, 2, 3}

----------------------------------------------------------------------------
(* MessageGetDeleted *)

\* the rows of the deletion log MessageGetDeleted selects, by position;
\* upper = 1 << 31 when opts.Before is not above 1, above every delid here
getDeletedRows(dl, topic, unum, opts) ==
    {k \in 1..Len(dl) :
        /\ dl[k].topic = topic
        /\ dl[k].delid >= (IF opts.Since > 0 THEN opts.Since ELSE 0)
        /\ (opts.Before > 1 => dl[k].delid <= opts.Before - 1)
        /\ (dl[k].deletedfor = 0 \/ dl[k].deletedfor = unum)}

\* ORDER BY delid: every order of the selected rows in which delid does not
\* decrease; the engine is free in the order of rows of one delid
RECURSIVE OrderByDelId(_, _)
OrderByDelId(dl, sel) ==
    IF sel = {} THEN {<<>>}
    ELSE UNION {{<<dl[k]>> \o rest : rest \in OrderByDelId(dl, sel \ {k})} :
                   k \in {k \in sel : \A j \in sel : dl[k].delid <= dl[j].delid}}

\* LIMIT $5
Limited(rows, limit) ==
    IF Len(rows) <= limit THEN rows ELSE SubSeq(rows, 1, limit)

\* var dmsg t.DelMessage
ZeroDelMessage == [DelId |-> 0, Topic |-> "", DeletedFor |-> "", SeqIdRanges |-> <<>>]

\* (variant: Hi is handed back as it is stored)
dellogHiStored(row) == row.hi

\* if dellog.Hi <= dellog.Low+1 { dellog.Hi = 0 }
dellogHi(row) == IF row.hi <= row.low + 1 THEN 0 ELSE row.hi

\* the loop over the rows: a row of another delid closes the event collected
\* so far and starts the next in the same dmsg, whose DeletedFor is assigned
\* only when the row's deletedfor is positive and whose SeqIdRanges is kept
\* the body of the loop for the row scanned into dellog
getDeletedRow(row, dmsgs, dmsg) ==
    LET opened == row.delid # dmsg.DelId
        dmsgs1 == IF opened /\ dmsg.DelId > 0 THEN Append(dmsgs, dmsg) ELSE dmsgs
        dmsg1 == IF opened
                 THEN [DelId |-> row.delid, Topic |-> row.topic,
                       DeletedFor |-> IF row.deletedfor > 0
                                      THEN UidString(EncodeUid(row.deletedfor))
                                      ELSE dmsg.DeletedFor,
                       SeqIdRanges |-> dmsg.SeqIdRanges]
                 ELSE dmsg
    IN  [dmsgs |-> dmsgs1,
         dmsg |-> [dmsg1 EXCEPT !.SeqIdRanges = Append(@, Range(row.low, dellogHi(row)))]]

\* what is returned after the loop
getDeletedEnd(dmsgs, dmsg) ==
    IF dmsg.DelId > 0 THEN Append(dmsgs, dmsg) ELSE dmsgs

RECURSIVE getDeletedLoop(_, _, _, _)
getDeletedLoop(rows, i, dmsgs, dmsg) ==
    IF i > Len(rows)
    THEN getDeletedEnd(dmsgs, dmsg)
    ELSE getDeletedLoop(rows, i + 1, getDeletedRow(rows[i], dmsgs, dmsg).dmsgs,
                        getDeletedRow(rows[i], dmsgs, dmsg).dmsg)

\* the rows of dellog MessageGetDeleted reads
getDeletedRead(dl, maxResults, topic, forUser, opts) ==
    LET limit == IF opts.Limit > 0 /\ opts.Limit < maxResults
                 THEN opts.Limit ELSE maxResults
    IN  {Limited(rows, limit) :
            rows \in OrderByDelId(dl, getDeletedRows(dl, topic, DecodeUid(forUser), opts))}

\* MessageGetDeleted on a given deletion log: the results it can return
msgGetDeleted(dl, maxResults, topic, forUser, opts) ==
    {getDeletedLoop(rows, 1, <<>>, ZeroDelMessage) :
        rows \in getDeletedRead(dl, maxResults, topic, forUser, opts)}

MessageGetDeleted(topic, forUser, opts) ==
    msgGetDeleted(dellog, defaultMaxResults, topic, forUser, opts)

\* a range as MessageGetDeleted hands it back: a single id has Hi = 0
ReadBack(rng) == IF RangeHi(rng) = rng.Low + 1 THEN Range(rng.Low, 0) ELSE rng

\* the ranges of an event
EventRanges(e) == {e.SeqIdRanges[k] : k \in 1..Len(e.SeqIdRanges)}

\* C12: the ranges MessageDeleteList has written for a user come back from
\* MessageGetDeleted, in the event of their DelId, with Low unchanged and with
\* Hi = 0 when they were written as (low, 0) or as (low, low+1) and Hi
\* unchanged when hi > low+1.
C12_RangesRoundTrip ==
    [][\A u \in Users :
          (/\ last'.op = "MessageDeleteList" /\ last'.err = ErrNil
           /\ last'.deletedFor = UserStr(u) /\ last'.n >= 1)
          => \A delId \in 1..MaxDelId :
                \A ranges \in RangeLists(MaxDellog - Len(dellog)) :
                   MessageDeleteList(last'.topic, DelMessage(delId, UserStr(u), ranges))
                   => \A res \in msgGetDeleted(dellog', defaultMaxResults, last'.topic,
                                               EncodeUid(u), QueryOpt(0, 0, 0)) :
                         \A k \in 1..Len(ranges) :
                            \E i \in 1..Len(res) :
                               /\ res[i].DelId = delId
                               /\ ReadBack(ranges[k]) \in EventRanges(res[i])]_vars

\* one call wrote (1, 0) and (2, 4) for user 1, and they are read back as
\* (1, 0) and (2, 4); or it wrote (1, 2), read back as (1, 0)
C12_Witness ==
    /\ last.op = "MessageDeleteList" /\ last.err = ErrNil
    /\ last.deletedFor = UserStr(1) /\ last.n = 2 /\ last.first = 0
    /\ dellog[1].low = 1 /\ dellog[1].hi = 2
    /\ dellog[2].low = 2 /\ dellog[2].hi = 4
    /\ \A res \in MessageGetDeleted(last.topic, EncodeUid(1), QueryOpt(0, 0, 0)) :
          /\ Len(res) = 1
          /\ EventRanges(res[1]) = {Range(1, 0), Range(2, 4)}

\* the ranges logged under delId among the rows `sel` of the deletion log,
\* as they are handed back
LoggedRanges(dl, sel, delId) ==
    {Range(dl[k].low, dellogHi(dl[k])) : k \in {j \in sel : dl[j].delid = delId}}

\* C13: MessageGetDeleted returns one event per distinct delId among the
\* dellog rows of the topic with deletedfor in {0, forUser} and delId in the
\* requested range, and each event holds exactly the ranges logged under its
\* own delId among those rows.
C13_EventsPerDelId ==
    \A t \in MsgTopics, u \in Users :
       \A since \in 0..MaxDelId, before \in 0..(MaxDelId + 1) :
          LET opts == QueryOpt(since, before, 0)
              sel == getDeletedRows(dellog, t, u, opts)
          IN  \A res \in MessageGetDeleted(t, EncodeUid(u), opts) :
                 /\ {res[i].DelId : i \in 1..Len(res)} = {dellog[k].delid : k \in sel}
                 /\ \A i, j \in 1..Len(res) : res[i].DelId = res[j].DelId => i = j
                 /\ \A i \in 1..Len(res) :
                       EventRanges(res[i]) = LoggedRanges(dellog, sel, res[i].DelId)

\* C14: MessageDeleteList with a DelMessage whose SeqIdRanges is empty, with
\* DeletedFor empty or a user, returns no error, does not panic, and changes
\* neither the dellog nor the messages table.
C14_EmptyRangesNoOp ==
    [][\A topic \in DelTopics, delId \in 1..MaxDelId :
          \A deletedFor \in {""} \cup {UserStr(u) : u \in Users} :
             MessageDeleteList(topic, DelMessage(delId, deletedFor, <<>>))
             => /\ last'.err = ErrNil
                /\ messages' = messages /\ dellog' = dellog
                /\ openTx' = openTx]_vars

\* the seqids a list of ranges covers
RangeIds(ranges) ==
    {seq \in 1..(MaxSeq + 1) :
        \E k \in 1..Len(ranges) : ranges[k].Low <= seq /\ seq < RangeHi(ranges[k])}

\* C11: MessageDeleteList with DeletedFor empty and a list of ranges returns
\* no error, logs the ranges with deletedfor = 0, keeps every message row,
\* stamps the rows of the ranges not deleted before with the DelId and clears
\* their head and content, leaves every other row as it was, and afterwards
\* MessageGetAll returns none of the covered messages to any user.
C11_DeleteForEveryone ==
    [][\A topic \in DelTopics, delId \in 1..MaxDelId :
          \A ranges \in RangeLists(MaxDellog - Len(dellog)) \ {<<>>} :
             MessageDeleteList(topic, DelMessage(delId, "", ranges))
             => /\ last'.err = ErrNil
                /\ dellog' = dellog \o dellogRows(topic, 0, delId, ranges)
                /\ \A m \in messages :
                      IF m.topic = topic /\ m.seqid \in RangeIds(ranges)
                         /\ m.deletedat = 0
                      THEN \E n \in messages' :
                              /\ n.topic = m.topic /\ n.seqid = m.seqid
                              /\ n.delid = delId /\ n.head = "" /\ n.content = ""
                      ELSE m \in messages'
                /\ Cardinality(messages') = Cardinality(messages)
                /\ \A u \in Users :
                      SeqIds(msgGetAll(messages', dellog', defaultMaxResults, topic,
                                       EncodeUid(u), QueryOpt(0, 0, 0)))
                      \cap RangeIds(ranges) = {}]_vars

-----------------------------------------------------------------------------
(* Table topics: TopicUpdateOnMessage and TopicUpdate *)

\* largest timestamp of a message
MaxStamp == 2

\* names the calls are made with: the topics that exist and one that does not
TopicNames == MsgTopics \cup {"grpC"}

\* columns a TopicUpdate map names, and the values it gives them
UpdateCols == {"seqid", "delid"}
UpdateVals == 0..MaxSeq
Updates == UNION {[cs -> UpdateVals] : cs \in SUBSET UpdateCols}

\* UPDATE topics SET seqid=$1,touchedat=$2 WHERE name=$3
onMessagePhs == <<1, 2, 3>>
onMessageCols == <<"seqid", "touchedat", "name">>

\* the rows of topics after the UPDATE of TopicUpdateOnMessage
topicUpdateOnMessage(tbl, topic, msg) ==
    IF StmtBad(onMessagePhs, onMessageCols, 3)
    THEN [tbl |-> tbl, err |-> PqBadParams]
    ELSE [tbl |-> [n \in DOMAIN tbl |->
                      IF n = topic
                      THEN [tbl[n] EXCEPT !.seqid = msg.SeqId,
                                          !.touchedat = msg.CreatedAt]
                      ELSE tbl[n]],
          err |-> ErrNil]

\* the orders in which the range over a map can visit its keys
RECURSIVE MapOrders(_)
MapOrders(keys) ==
    IF keys = {} THEN {<<>>}
    ELSE UNION {{<<k>> \o rest : rest \in MapOrders(keys \ {k})} : k \in keys}

\* updateByMap for one order of the map: col=$index with index from 1
updateByMap(update, order) ==
    [cols |-> order,
     phs  |-> [i \in 1..Len(order) |-> i],
     args |-> [i \in 1..Len(order) |-> update[order[i]]]]

PqSyntaxError == "pq: syntax error"

\* the rows of topics after the UPDATE of TopicUpdate, whose WHERE clause is
\* name=$1 and whose argument list is that of updateByMap with topic appended
topicUpdate(tbl, topic, update, order) ==
    LET u == updateByMap(update, order)
        phs == u.phs \o <<1>>
        cols == u.cols \o <<"name">>
        nargs == Len(u.args) + 1
    IN  IF order = <<>> THEN [tbl |-> tbl, err |-> PqSyntaxError]
        ELSE IF StmtBad(phs, cols, nargs) THEN [tbl |-> tbl, err |-> PqBadParams]
        ELSE [tbl |-> [n \in DOMAIN tbl |->
                          IF n = u.args[1]
                          THEN [c \in DOMAIN tbl[n] |->
                                   IF c \in DOMAIN update THEN update[c]
                                   ELSE tbl[n][c]]
                          ELSE tbl[n]],
              err |-> ErrNil]

TopicCall(op, topic, seq, err) ==
    [op |-> op, topic |-> topic, seq |-> seq, err |-> err, end |-> "none"]

TopicUpdateOnMessage(topic, msg) ==
    /\ \E out \in {topicUpdateOnMessage(topics, topic, msg)} :
           /\ topics' = out.tbl
           /\ last' = TopicCall("TopicUpdateOnMessage", topic, msg.SeqId, out.err)
    /\ UNCHANGED exceptTopic

\* update carries no "Tags" key, so the statements on topictags are not reached
TopicUpdate(topic, update) ==
    /\ \E order \in MapOrders(DOMAIN update) :
           \E out \in {topicUpdate(topics, topic, update, order)} :
               /\ topics' = out.tbl
               /\ last' = TopicCall("TopicUpdate", topic, Len(order), out.err)
    /\ UNCHANGED exceptTopic

TopicUpdateOnMessageStep ==
    \E topic \in TopicNames, seq \in 1..MaxSeq, u \in MsgSenders,
       now \in 1..MaxStamp :
        TopicUpdateOnMessage(topic, Msg(topic, seq, u, now))

TopicUpdateStep ==
    \E topic \in TopicNames, update \in Updates : TopicUpdate(topic, update)

NextTopic ==
    \/ TopicUpdateOnMessageStep
    \/ TopicUpdateStep

SpecTopic == Init /\ [][NextTopic]_vars

\* C15: for every call of TopicUpdateOnMessage or TopicUpdate, in any order,
\* the seqid and the delid stored for each topic after the call are at least
\* the values stored before it
C15_CountersNeverDecrease ==
    [][\A n \in MsgTopics : /\ topics'[n].seqid >= topics[n].seqid
                            /\ topics'[n].delid >= topics[n].delid]_vars

-----------------------------------------------------------------------------
(* Error reporting *)

\* C18: a call whose statement violates a uniqueness constraint returns
\* ErrDuplicate; no call returns the engine's own unique-violation error
C18_DuplicateReported ==
    last.err # PqUnique

\* C19: MessageDeleteList with a non-empty DeletedFor that does not decode
\* returns an error and changes neither messages nor dellog; in particular it
\* logs no row with deletedfor = 0
C19_MalformedDeletedFor ==
    [][(/\ last'.op = "MessageDeleteList"
        /\ last'.deletedFor # ""
        /\ ParseUid(last'.deletedFor) = 0)
       => /\ last'.err # ErrNil
          /\ messages' = messages
          /\ dellog' = dellog]_vars

-----------------------------------------------------------------------------
(* Tables users, usertags, topics, topictags and subscriptions *)

\* tags given to users and topics
Tags == {"a", "b"}

\* a p2p topic of users 1 and 2, and a group topic created by TopicCreate
P2PTopic == "p2p12"
NewTopic == "grpC"

PqForeignKey == "pq: foreign_key_violation"

\* the tables as one transaction sees them
Db(us, ut, tp, tt, sb, msgs, dl, creds, au, dv) ==
    [users |-> us, usertags |-> ut, topics |-> tp, topictags |-> tt,
     subscriptions |-> sb, messages |-> msgs, dellog |-> dl,
     credentials |-> creds, auth |-> au, devices |-> dv]

\* the result of a statement, and the result `next` of the statement that
\* follows it if it succeeded
Res(db, err) == [db |-> db, err |-> err]
Then(r, next) == IF r.err # ErrNil THEN r ELSE next

\* what tx.Rollback() leaves of the tables `after` of a transaction begun
\* with the tables `before`
RollbackNone(before, after) == after
Rollback(before, after) == before

\* the deferred function and the final tx.Commit() of a handler
\* (`seen` is the tables as the transaction saw them when the handler returned)
Finish(before, r) ==
    IF r.err = ErrNil
    THEN [db |-> r.db, err |-> ErrNil, end |-> "commit", seen |-> r.db]
    ELSE [db |-> Rollback(before, r.db), err |-> r.err, end |-> "rollback",
          seen |-> r.db]

\* the row the keyName column of a tags table references exists
tagKeyExists(db, table, keyVal) ==
    IF table = "usertags" THEN \E u \in db.users : u.id = keyVal
    ELSE keyVal \in DOMAIN db.topics

RECURSIVE addTags(_, _, _, _, _)
addTags(db, table, keyVal, tags, ignoreDups) ==
    IF tags = <<>> THEN Res(db, ErrNil)
    ELSE LET row == [key |-> keyVal, tag |-> Head(tags)]
             err == IF ~tagKeyExists(db, table, keyVal) THEN PqForeignKey
                    ELSE IF row \in db[table] THEN PqUnique
                    ELSE ErrNil
         IN  IF err # ErrNil
             THEN IF isDupe(err)
                  THEN IF ignoreDups
                       THEN addTags(db, table, keyVal, Tail(tags), ignoreDups)
                       ELSE Res(db, ErrDuplicate)
                  ELSE Res(db, err)
             ELSE addTags([db EXCEPT ![table] = @ \cup {row}], table, keyVal,
                          Tail(tags), ignoreDups)

\* DELETE FROM <table> WHERE <keyName>=$1
deleteTags(db, table, keyVal) ==
    Res([db EXCEPT ![table] = {r \in @ : r.key # keyVal}], ErrNil)

(* UserCreate *)

\* the public profiles the users are created with
Profile == [u \in Users |-> IF u = 1 THEN "alice" ELSE "bob"]

User(n, tags) == [Uid |-> EncodeUid(n), Tags |-> tags, Public |-> Profile[n]]

UserRow(id, now, tags, public) ==
    [id |-> id, updatedat |-> now, deletedat |-> 0, tags |-> tags,
     public |-> toJSON(public)]

insertUser(db, row) ==
    IF \E u \in db.users : u.id = row.id THEN Res(db, PqUnique)
    ELSE Res([db EXCEPT !.users = @ \cup {row}], ErrNil)

userCreate(db, user, now) ==
    LET decoded_uid == DecodeUid(user.Uid)
        r1 == insertUser(db, UserRow(decoded_uid, now, user.Tags, user.Public))
        r2 == Then(r1, addTags(r1.db, "usertags", decoded_uid, user.Tags, FALSE))
    IN  Finish(db, r2)

(* UserUpdate *)

\* the keys of an update map and the columns strings.ToLower makes of them
ToLower == [UpdatedAt |-> "updatedat", Tags |-> "tags", tags |-> "tags"]

\* a list of tags as a value of an update map: a t.StringSlice or a []string
StringSlice(tags) == [type |-> "t.StringSlice", v |-> tags]
Strings(tags) == [type |-> "[]string", v |-> tags]

\* the value the UPDATE writes to column c
ColVal(c, arg) == IF c = "tags" THEN arg.v ELSE arg

\* updateByMap on a map with the keys of ToLower
updateColsByMap(update, order) ==
    [cols |-> [i \in 1..Len(order) |-> ToLower[order[i]]],
     phs  |-> [i \in 1..Len(order) |-> i],
     args |-> [i \in 1..Len(order) |-> update[order[i]]]]

NoTags == [nil |-> TRUE, tags |-> <<>>]
SomeTags(tags) == [nil |-> FALSE, tags |-> tags]

\* update["Tags"] when it is there and is a t.StringSlice, nil otherwise
extractTags(update) ==
    IF "Tags" \in DOMAIN update /\ update["Tags"].type = "t.StringSlice"
    THEN SomeTags(update["Tags"].v)
    ELSE NoTags

\* UPDATE users SET <cols> WHERE id=$1, with decoded_uid as the last argument
updateUsers(db, update, order, decoded_uid) ==
    LET u == updateColsByMap(update, order)
        phs == u.phs \o <<1>>
        cols == u.cols \o <<"id">>
        args == u.args \o <<decoded_uid>>
    IN  IF order = <<>> THEN Res(db, PqSyntaxError)
        ELSE IF StmtBad(phs, cols, Len(args)) THEN Res(db, PqBadParams)
        ELSE Res([db EXCEPT !.users =
                     {IF r.id = args[1]
                      THEN [c \in DOMAIN r |->
                               IF \E k \in DOMAIN update : ToLower[k] = c
                               THEN ColVal(c, update[CHOOSE k \in DOMAIN update :
                                                          ToLower[k] = c])
                               ELSE r[c]]
                      ELSE r : r \in @}], ErrNil)

userUpdate(db, uid, update, order) ==
    LET decoded_uid == DecodeUid(uid)
        tags == extractTags(update)
        r1 == updateUsers(db, update, order, decoded_uid)
        r2 == Then(r1, IF tags.nil THEN r1
                       ELSE deleteTags(r1.db, "usertags", decoded_uid))
        r3 == Then(r2, IF tags.nil THEN r2
                       ELSE addTags(r2.db, "usertags", decoded_uid, tags.tags, FALSE))
    IN  Finish(db, r3)

(* TopicUpdate with a map that may carry tags *)

\* UPDATE topics SET <cols> WHERE name=$1, with topic as the last argument
updateTopics(db, update, order, topic) ==
    LET u == updateColsByMap(update, order)
        phs == u.phs \o <<1>>
        cols == u.cols \o <<"name">>
        args == u.args \o <<topic>>
    IN  IF order = <<>> THEN Res(db, PqSyntaxError)
        ELSE IF StmtBad(phs, cols, Len(args)) THEN Res(db, PqBadParams)
        ELSE Res([db EXCEPT !.topics =
                     [n \in DOMAIN @ |->
                         IF n = args[1]
                         THEN [c \in DOMAIN @[n] |->
                                  IF \E k \in DOMAIN update : ToLower[k] = c
                                  THEN ColVal(c, update[CHOOSE k \in DOMAIN update :
                                                             ToLower[k] = c])
                                  ELSE @[n][c]]
                         ELSE @[n]]], ErrNil)

topicUpdateTx(db, topic, update, order) ==
    LET tags == extractTags(update)
        r1 == updateTopics(db, update, order, topic)
        r2 == Then(r1, IF tags.nil THEN r1
                       ELSE deleteTags(r1.db, "topictags", topic))
        r3 == Then(r2, IF tags.nil THEN r2
                       ELSE addTags(r2.db, "topictags", topic, tags.tags, FALSE))
    IN  Finish(db, r3)

(* UserUpdateTags *)

\* what tx.Exec makes of the query removeTags hands it. sqlx.In expands "?"
\* bindvars only; the query is written with $1 and $2, so In returns an
\* error, which removeTags drops (`query, args, _ :=`), and an empty query:
\* the engine runs the empty query as a statement that does nothing, or
\* rejects it
EmptyQueryRuns == {TRUE, FALSE}

\* removeTags: nothing to do for an empty list, else the Exec of that query
removeTags(db, table, keyVal, tags, runs) ==
    IF tags = <<>> THEN Res(db, ErrNil)
    ELSE IF runs THEN Res(db, ErrNil)
    ELSE Res(db, PqSyntaxError)


\* SELECT tag FROM usertags WHERE userid=$1
userTags(db, decoded_uid) == {r.tag : r \in {x \in db.usertags : x.key = decoded_uid}}

\* UPDATE users SET tags=$1 WHERE id=$2
setUserTags(db, decoded_uid, allTags) ==
    Res([db EXCEPT !.users = {IF r.id = decoded_uid THEN [r EXCEPT !.tags = allTags]
                              ELSE r : r \in @}], ErrNil)

\* the transaction up to the SELECT of the user's tags
userUpdateTagsUpTo(db, uid, add, remove, reset, runs) ==
    LET decoded_uid == DecodeUid(uid)
        r1 == IF reset.nil THEN Res(db, ErrNil)
              ELSE deleteTags(db, "usertags", decoded_uid)
        r2 == Then(r1, addTags(r1.db, "usertags", decoded_uid,
                               IF reset.nil THEN add ELSE reset.tags, reset.nil))
    IN  Then(r2, removeTags(r2.db, "usertags", decoded_uid,
                            IF reset.nil THEN remove ELSE <<>>, runs))

\* allTags is the SELECT's result in the order the engine returned it; it is
\* the list the call returns and the value written to users.tags
userUpdateTags(db, uid, add, remove, reset, runs, allTags) ==
    LET r1 == userUpdateTagsUpTo(db, uid, add, remove, reset, runs)
    IN  Finish(db, Then(r1, setUserTags(r1.db, DecodeUid(uid), allTags)))

(* TopicCreate, TopicCreateP2P, TopicShare *)

Topic(id, owner, tags, now) ==
    [Id |-> id, Owner |-> owner, Tags |-> tags, UpdatedAt |-> now, TouchedAt |-> now,
     Public |-> Nil]

Subscription(topic, u, isOwner, now) ==
    [Topic |-> topic, User |-> UserStr(u), IsOwner |-> isOwner, UpdatedAt |-> now]

\* INSERT INTO topics(...), then the topic's tags
topicCreate(db, topic) ==
    LET row == [TopicRow(topic.Id) EXCEPT !.updatedat = topic.UpdatedAt,
                                          !.touchedat = topic.TouchedAt,
                                          !.owner = DecodeUid(ParseUid(topic.Owner)),
                                          !.tags = topic.Tags,
                                          !.public = toJSON(topic.Public)]
        r1 == IF topic.Id \in DOMAIN db.topics THEN Res(db, PqUnique)
              ELSE Res([db EXCEPT !.topics =
                           [n \in DOMAIN @ \cup {topic.Id} |->
                               IF n = topic.Id THEN row ELSE @[n]]], ErrNil)
    IN  Then(r1, addTags(r1.db, "topictags", topic.Id, topic.Tags, FALSE))

TopicCreateTx(db, topic) == Finish(db, topicCreate(db, topic))

\* UPDATE subscriptions SET ...,deletedAt=NULL,... WHERE topic=.. AND userid=..
\* (both forms of it; they differ in the mode and private columns)
subUndelete(db, sub, decoded_uid) ==
    Res([db EXCEPT !.subscriptions =
            {IF r.topic = sub.Topic /\ r.userid = decoded_uid
             THEN [r EXCEPT !.updatedat = sub.UpdatedAt, !.deletedat = 0]
             ELSE r : r \in @}], ErrNil)

createSubscription(db, sub, undelete) ==
    LET decoded_uid == DecodeUid(ParseUid(sub.User))
        row == [topic |-> sub.Topic, userid |-> decoded_uid,
                updatedat |-> sub.UpdatedAt, deletedat |-> 0]
        err == IF ~\E u \in db.users : u.id = decoded_uid THEN PqForeignKey
               ELSE IF \E r \in db.subscriptions :
                           r.topic = sub.Topic /\ r.userid = decoded_uid
                    THEN PqUnique
               ELSE ErrNil
        ins == IF err = ErrNil
               THEN Res([db EXCEPT !.subscriptions = @ \cup {row}], ErrNil)
               ELSE IF isDupe(err) THEN subUndelete(db, sub, decoded_uid)
               ELSE Res(db, err)
    IN  IF ins.err = ErrNil /\ sub.IsOwner
        THEN \* UPDATE topics SET owner=$1 WHERE name=$2
             Res([ins.db EXCEPT !.topics =
                     [n \in DOMAIN @ |->
                         IF n = sub.Topic THEN [@[n] EXCEPT !.owner = decoded_uid]
                         ELSE @[n]]], ErrNil)
        ELSE ins

topicCreateP2P(db, initiator, invited) ==
    LET r1 == createSubscription(db, initiator, FALSE)
        r2 == Then(r1, createSubscription(r1.db, invited, TRUE))
        r3 == Then(r2, topicCreate(r2.db, Topic(initiator.Topic, "", <<>>,
                                                initiator.UpdatedAt)))
    IN  Finish(db, r3)

RECURSIVE shareAll(_, _)
shareAll(r, shares) ==
    IF shares = <<>> \/ r.err # ErrNil THEN r
    ELSE shareAll(createSubscription(r.db, Head(shares), TRUE), Tail(shares))

topicShare(db, shares) == Finish(db, shareAll(Res(db, ErrNil), shares))

(* TopicDelete *)

\* messageDeleteList inside a transaction on the tables db
messageDeleteListTx(db, topic, toDel, now) ==
    LET m == messageDeleteList(db.messages, db.dellog, topic, toDel, now)
    IN  Res([db EXCEPT !.messages = m.messages, !.dellog = m.dellog], m.err)

\* UPDATE subscriptions SET updatedat=$1,deletedat=$2 WHERE ..., the WHERE
\* clause selecting the rows `which`
subsMarkDeleted(db, which, now) ==
    Res([db EXCEPT !.subscriptions =
            {IF r \in which THEN [r EXCEPT !.updatedat = now, !.deletedat = now]
             ELSE r : r \in @}], ErrNil)

\* UPDATE topics SET updatedat=$1,deletedat=$2 WHERE ..., the WHERE clause
\* selecting the topics named in `which` (and the statement without its
\* deletedat)
topicsMarkUpdated(db, which, now) ==
    Res([db EXCEPT !.topics =
            [n \in DOMAIN @ |->
                IF n \in which THEN [@[n] EXCEPT !.updatedat = now] ELSE @[n]]], ErrNil)
topicsMarkDeleted(db, which, now) ==
    Res([db EXCEPT !.topics =
            [n \in DOMAIN @ |->
                IF n \in which THEN [@[n] EXCEPT !.updatedat = now, !.deletedat = now]
                ELSE @[n]]], ErrNil)

\* DELETE FROM topics WHERE ..., the WHERE clause selecting the topics named
\* in `which`
topicsDelete(db, which) ==
    Res([db EXCEPT !.topics = [n \in DOMAIN @ \ which |-> @[n]]], ErrNil)

topicDelete(db, topic, hard, now) ==
    LET OfTopic(d) == {r \in d.subscriptions : r.topic = topic}
        r1 == Res([db EXCEPT !.subscriptions = @ \ OfTopic(db)], ErrNil)
        r2 == Then(r1, messageDeleteListTx(r1.db, topic, NilDelMessage, now))
        r3 == Then(r2, deleteTags(r2.db, "topictags", topic))
        r4 == Then(r3, topicsDelete(r3.db, {topic}))
        s1 == subsMarkDeleted(db, OfTopic(db), now)
        s2 == Then(s1, topicsMarkDeleted(s1.db, {topic}, now))
    IN  IF hard THEN Finish(db, r4) ELSE Finish(db, s2)

(* Table devices: deviceHasher and deviceDelete *)

\* the 64-bit FNV-1 hash of the device id in hexadecimal, as
\* strconv.FormatUint writes it (no leading zeros)
deviceHasher ==
    [d1 |-> "8326407b4eb32f0", d2 |-> "8326407b4eb32f3"]

\* (variant: the DELETE selects by hash alone)
deviceDeleteRowsAnyUser(rows, uid, deviceID) ==
    {r \in rows : deviceID # "" => r.hash = deviceHasher[deviceID]}

\* DELETE FROM devices WHERE userid=$1 [AND hash=$2]
deviceDeleteRows(rows, uid, deviceID) ==
    {r \in rows : /\ r.userid = DecodeUid(uid)
                  /\ deviceID # "" => r.hash = deviceHasher[deviceID]}

deviceDelete(db, uid, deviceID) ==
    Res([db EXCEPT !.devices = @ \ deviceDeleteRows(@, uid, deviceID)], ErrNil)

(* UserDelete *)

subsDelForUser(db, user, hard, now) ==
    LET OfUser == {r \in db.subscriptions : r.userid = DecodeUid(user)}
    IN  IF hard THEN Res([db EXCEPT !.subscriptions = @ \ OfUser], ErrNil)
        ELSE subsMarkDeleted(db, OfUser, now)

userDelete(db, uid, hard, now) ==
    LET decoded_uid == DecodeUid(uid)
        \* the names of the topics the user owns
        Owned(d) == {n \in DOMAIN d.topics : d.topics[n].owner = decoded_uid}
        logFor(d) ==
            LET Kept(r) == r.deletedfor # decoded_uid
            IN  Res([d EXCEPT !.dellog = SelectSeq(@, Kept)], ErrNil)
        logOwned(d) ==
            LET Kept(r) == r.topic \notin Owned(d)
            IN  Res([d EXCEPT !.dellog = SelectSeq(@, Kept)], ErrNil)
        \* DELETE messages FROM messages LEFT JOIN topics ... WHERE
        \* topics.owner=$2, with the one argument
        msgsOwned(d) ==
            IF StmtBad(<<2>>, <<"owner">>, 1) THEN Res(d, PqBadParams)
            ELSE Res([d EXCEPT !.messages = {m \in @ : m.topic \notin Owned(d)}],
                     ErrNil)
        subsOwned(d) ==
            Res([d EXCEPT !.subscriptions = {r \in @ : r.topic \notin Owned(d)}],
                ErrNil)
        tagsOwned(d) ==
            Res([d EXCEPT !.topictags = {r \in @ : r.key \notin Owned(d)}], ErrNil)
        auths(d) == Res([d EXCEPT !.auth = {r \in @ : r.userid # decoded_uid}], ErrNil)
        creds(d) ==
            LET c == credDel(d.credentials, uid, "", "", now)
            IN  Res([d EXCEPT !.credentials = c.view], c.err)
        user(d) ==
            IF \/ \E r \in d.subscriptions \cup d.auth \cup d.devices
                             \cup d.credentials : r.userid = decoded_uid
               \/ \E r \in d.usertags : r.key = decoded_uid
            THEN Res(d, PqForeignKey)
            ELSE Res([d EXCEPT !.users = {u \in @ : u.id # decoded_uid}], ErrNil)
        softUser(d) ==
            Res([d EXCEPT !.users =
                    {IF u.id = decoded_uid
                     THEN [u EXCEPT !.updatedat = now, !.deletedat = now]
                     ELSE u : u \in @}], ErrNil)
        r0 == deviceDelete(db, uid, "")
        r1 == Then(r0, subsDelForUser(r0.db, uid, TRUE, now))
        r2 == Then(r1, logFor(r1.db))
        r3 == Then(r2, logOwned(r2.db))
        r4 == Then(r3, msgsOwned(r3.db))
        r5 == Then(r4, subsOwned(r4.db))
        r6 == Then(r5, tagsOwned(r5.db))
        r7 == Then(r6, topicsDelete(r6.db, Owned(r6.db)))
        r8 == Then(r7, auths(r7.db))
        r9 == Then(r8, creds(r8.db))
        r10 == Then(r9, deleteTags(r9.db, "usertags", decoded_uid))
        r11 == Then(r10, user(r10.db))
        s1 == subsDelForUser(db, uid, FALSE, now)
        s2 == Then(s1, subsMarkDeleted(s1.db,
                           {r \in s1.db.subscriptions : r.topic \in Owned(s1.db)}, now))
        s3 == Then(s2, topicsMarkDeleted(s2.db, Owned(s2.db), now))
        s4 == Then(s3, softUser(s3.db))
    IN  IF hard THEN Finish(db, r11) ELSE Finish(db, s4)

(* SubsDelete *)

subsDelete(db, topic, user, now) ==
    LET Live == {r \in db.subscriptions :
                    r.topic = topic /\ r.userid = DecodeUid(user) /\ r.deletedat = 0}
        affected == Cardinality(Live)
    IN  [db |-> subsMarkDeleted(db, Live, now).db,
         err |-> IF affected = 0 THEN ErrNotFound ELSE ErrNil,
         end |-> "none",
         seen |-> subsMarkDeleted(db, Live, now).db]

(* The calls *)

CurDb ==
    Db(users, usertags, topics, topictags, subscriptions, messages, dellog,
       credentials, auth, devices)

\* a call on these tables, with its result; `dirty` tells that a statement of
\* the call had changed a row when the call returned
UsrCall(op, uid, topic, hard, out) ==
    [op |-> op, err |-> out.err, end |-> out.end, dirty |-> out.seen # CurDb]

UsrReturned(op, uid, topic, hard, out) ==
    /\ users' = out.db.users
    /\ usertags' = out.db.usertags
    /\ topics' = out.db.topics
    /\ topictags' = out.db.topictags
    /\ subscriptions' = out.db.subscriptions
    /\ messages' = out.db.messages
    /\ dellog' = out.db.dellog
    /\ credentials' = out.db.credentials
    /\ auth' = out.db.auth
    /\ devices' = out.db.devices
    /\ last' = UsrCall(op, uid, topic, hard, out)
    /\ UNCHANGED exceptUsr

UserCreate(user) ==
    \E out \in {userCreate(CurDb, user, clock + 1)} :
        UsrReturned("UserCreate", user.Uid, "", FALSE, out)

UserUpdate(uid, update) ==
    \E order \in MapOrders(DOMAIN update) :
        \E out \in {userUpdate(CurDb, uid, update, order)} :
            UsrReturned("UserUpdate", uid, "", FALSE, out)

UserUpdateTags(uid, add, remove, reset) ==
    \E runs \in EmptyQueryRuns :
        \E upTo \in {userUpdateTagsUpTo(CurDb, uid, add, remove, reset, runs)} :
            \E allTags \in MapOrders(userTags(upTo.db, DecodeUid(uid))) :
                \E out \in {userUpdateTags(CurDb, uid, add, remove, reset, runs,
                                           allTags)} :
                    UsrReturned("UserUpdateTags", uid, "", FALSE, out)

TopicCreate(topic) ==
    \E out \in {TopicCreateTx(CurDb, topic)} :
        UsrReturned("TopicCreate", 0, topic.Id, FALSE, out)

TopicCreateP2P(initiator, invited) ==
    \E out \in {topicCreateP2P(CurDb, initiator, invited)} :
        UsrReturned("TopicCreateP2P", ParseUid(initiator.User), initiator.Topic,
                    FALSE, out)

TopicShare(shares) ==
    \E out \in {topicShare(CurDb, shares)} :
        UsrReturned("TopicShare", 0, "", FALSE, out)

\* TopicUpdate with a map that may carry tags
TopicUpdateWithTags(topic, update) ==
    \E order \in MapOrders(DOMAIN update) :
        \E out \in {topicUpdateTx(CurDb, topic, update, order)} :
            UsrReturned("TopicUpdate", 0, topic, FALSE, out)

TopicDelete(topic, hard) ==
    \E out \in {topicDelete(CurDb, topic, hard, clock + 1)} :
        UsrReturned("TopicDelete", 0, topic, hard, out)

UserDelete(uid, hard) ==
    \E out \in {userDelete(CurDb, uid, hard, clock + 1)} :
        UsrReturned("UserDelete", uid, "", hard, out)

SubsDelete(topic, user) ==
    \E out \in {subsDelete(CurDb, topic, user, clock + 1)} :
        UsrReturned("SubsDelete", user, topic, FALSE, out)

\* the inputs of the calls: user 1 is the one with tags, the owner of the new
\* group topic and the subscriber of grpA
TagLists == {<<"a">>, <<"a", "a">>}
TaggedUsers == {1}
UpdateKeys == {{}, {"UpdatedAt", "Tags"}}
UsrTopics == {"grpA", P2PTopic}

UserCreateStep ==
    \E u \in Users, tags \in TagLists \cup {<<>>} :
        /\ u \in TaggedUsers <=> tags # <<>>
        /\ UserCreate(User(u, tags))

UserUpdateStep ==
    \E u \in TaggedUsers, keys \in UpdateKeys :
        UserUpdate(EncodeUid(u),
                   [k \in keys |-> IF k = "Tags" THEN StringSlice(<<"b">>)
                                   ELSE clock + 1])

UserUpdateTagsStep ==
    \E u \in TaggedUsers, add \in {<<>>, <<"b">>},
       reset \in {NoTags, SomeTags(<<"a">>)} :
        UserUpdateTags(EncodeUid(u), add, <<>>, reset)

TopicCreateStep ==
    \E u \in TaggedUsers, tags \in TagLists :
        TopicCreate(Topic(NewTopic, UserStr(u), tags, clock + 1))

TopicCreateP2PStep ==
    \E u \in TaggedUsers, v \in Users \ TaggedUsers :
        TopicCreateP2P(Subscription(P2PTopic, u, FALSE, clock + 1),
                       Subscription(P2PTopic, v, FALSE, clock + 1))

TopicShareStep ==
    \E u \in TaggedUsers :
        TopicShare(<<Subscription("grpA", u, TRUE, clock + 1)>>)

TopicDeleteStep ==
    \E topic \in DelTopics, hard \in BOOLEAN : TopicDelete(topic, hard)

UserDeleteStep ==
    \E u \in Users, hard \in BOOLEAN : UserDelete(EncodeUid(u), hard)

SubsDeleteStep ==
    \E topic \in UsrTopics, u \in Users : SubsDelete(topic, EncodeUid(u))


\* (nil, nil): sql.ErrNoRows is cleared, or returned as it is
ErrNoRows == "sql: no rows in result set"
NotFoundNotCleared == [nil |-> TRUE, err |-> ErrNoRows]
NotFound == [nil |-> TRUE, err |-> ErrNil]

\* a fetched row with a nil error
Found(row) == [nil |-> FALSE, err |-> ErrNil, row |-> row]

(* Table auth: AuthAddRecord *)

\* the scheme and the unique name of the authentication records
AuthScheme == "basic"
AuthUname == "alice"

\* INSERT INTO auth(uname,userid,scheme,authLvl,secret,expires)
authAddRecord(tbl, us, uid, scheme, unique) ==
    LET row == [uname |-> unique, userid |-> DecodeUid(uid), scheme |-> scheme]
        err == IF ~\E u \in us : u.id = row.userid THEN PqForeignKey
               ELSE IF \E r \in tbl : \/ r.uname = unique
                                       \/ (r.userid = row.userid /\ r.scheme = scheme)
                    THEN PqUnique
               ELSE ErrNil
    IN  IF err # ErrNil
        THEN IF isDupe(err) THEN [tbl |-> tbl, val |-> TRUE, err |-> ErrDuplicate]
             ELSE [tbl |-> tbl, val |-> FALSE, err |-> err]
        ELSE [tbl |-> tbl \cup {row}, val |-> FALSE, err |-> ErrNil]

AuthAddRecord(uid, scheme, unique) ==
    /\ \E out \in {authAddRecord(auth, users, uid, scheme, unique)} :
           /\ auth' = out.tbl
           /\ last' = [op |-> "AuthAddRecord", err |-> out.err, end |-> "none",
                       dirty |-> FALSE]
    /\ UNCHANGED exceptAuth

AuthAddRecordStep ==
    \E u \in Users \ TaggedUsers :
        AuthAddRecord(EncodeUid(u), AuthScheme, AuthUname)

\* SELECT uname,secret,expires,authlvl FROM auth WHERE userid=$1 AND scheme=$2
AuthGetRecord(uid, scheme) ==
    LET rows == {r \in auth : r.userid = DecodeUid(uid) /\ r.scheme = scheme}
    IN  IF rows = {} THEN [uname |-> "", err |-> ErrNil]
        ELSE [uname |-> (CHOOSE r \in rows : TRUE).uname, err |-> ErrNil]

(* Table fileuploads: FileStartUpload, FileFinishUpload, FileGet *)

\* the files, by the numeric key of their id, and the texts given as file ids
Files == {1, 2}
Fids == {UserStr(f) : f \in Files} \cup {"?"}

\* upload states
UploadStarted == 0
UploadCompleted == 1

\* where the uploaded files are kept
Location == [f \in Files |-> IF f = 1 THEN "/f1" ELSE "/f2"]

FileDef(f, now) ==
    [Uid |-> EncodeUid(f), Status |-> UploadStarted, UpdatedAt |-> now,
     Location |-> Location[f]]

\* INSERT INTO fileuploads(id,createdat,updatedat,userid,status,...)
fileStartUpload(tbl, fd) ==
    IF \E r \in tbl : r.id = DecodeUid(fd.Uid) THEN [tbl |-> tbl, err |-> PqUnique]
    ELSE [tbl |-> tbl \cup {[id |-> DecodeUid(fd.Uid), status |-> fd.Status,
                             updatedat |-> fd.UpdatedAt, location |-> fd.Location]},
          err |-> ErrNil]

fileGet(tbl, fid) ==
    LET id == ParseUid(fid)
        rows == {r \in tbl : r.id = DecodeUid(id)}
    IN  IF id = 0 THEN [nil |-> TRUE, err |-> ErrMalformed]
        ELSE IF rows = {} THEN NotFound
        ELSE Found(CHOOSE r \in rows : TRUE)

FileGet(fid) == fileGet(fileuploads, fid)

fileFinishUpload(tbl, fid, status, now) ==
    LET id == ParseUid(fid)
        fd == fileGet(tbl, fid)
    IN  IF id = 0 THEN [tbl |-> tbl, nil |-> TRUE, err |-> ErrMalformed]
        ELSE IF fd.err # ErrNil THEN [tbl |-> tbl, nil |-> TRUE, err |-> fd.err]
        ELSE IF fd.nil THEN [tbl |-> tbl, nil |-> TRUE, err |-> ErrNotFound]
        ELSE [tbl |-> {IF r.id = DecodeUid(id)
                       THEN [r EXCEPT !.updatedat = now, !.status = status]
                       ELSE r : r \in tbl},
              nil |-> FALSE, err |-> ErrNil]

FileCall(op, fid, out) ==
    [op |-> op, fid |-> fid, err |-> out.err, end |-> "none", dirty |-> FALSE]

FileStartUpload(fd) ==
    /\ \E out \in {fileStartUpload(fileuploads, fd)} :
           /\ fileuploads' = out.tbl
           /\ last' = FileCall("FileStartUpload", UidString(fd.Uid), out)
    /\ UNCHANGED <<exceptFile, linkVars>>

FileFinishUpload(fid, status) ==
    /\ \E out \in {fileFinishUpload(fileuploads, fid, status, clock + 1)} :
           /\ fileuploads' = out.tbl
           /\ last' = FileCall("FileFinishUpload", fid, out)
    /\ UNCHANGED <<exceptFile, linkVars>>

FileStartUploadStep ==
    \E f \in Files : FileStartUpload(FileDef(f, clock + 1))

FileFinishUploadStep ==
    \E fid \in Fids : FileFinishUpload(fid, UploadCompleted)

NextUsr ==
    \/ UserCreateStep
    \/ UserUpdateStep
    \/ UserUpdateTagsStep
    \/ TopicCreateStep
    \/ TopicCreateP2PStep
    \/ TopicShareStep
    \/ TopicDeleteStep
    \/ UserDeleteStep
    \/ SubsDeleteStep
    \/ AuthAddRecordStep

SpecUsr == Init /\ [][NextUsr]_vars

(* The reads *)

\* SELECT * FROM users WHERE id=$1 AND deletedat IS NULL
UserGet(uid) ==
    LET rows == {u \in users : u.id = DecodeUid(uid) /\ u.deletedat = 0}
    IN  IF rows = {} THEN NotFound ELSE Found(CHOOSE u \in rows : TRUE)

\* SELECT ... FROM topics WHERE name=$1
TopicGet(topic) ==
    IF topic \in DOMAIN topics THEN Found(topics[topic]) ELSE NotFound

\* SELECT ... FROM subscriptions WHERE topic=$1 AND userid=$2, and the test
\* of sub.DeletedAt that follows
SubscriptionGet(topic, user) ==
    LET rows == {r \in subscriptions :
                    r.topic = topic /\ r.userid = DecodeUid(user)}
    IN  IF rows = {} THEN NotFound
        ELSE IF (CHOOSE r \in rows : TRUE).deletedat # 0 THEN NotFound
        ELSE Found(CHOOSE r \in rows : TRUE)

\* SELECT ... FROM credentials WHERE userid=$1 AND deletedat IS NULL AND
\* method=$2 AND done=false
CredGetActive(uid, method) ==
    LET rows == {r \in credentials : /\ r.userid = DecodeUid(uid)
                                     /\ r.deletedat = 0
                                     /\ r.method = method
                                     /\ ~r.done}
    IN  IF rows = {} THEN NotFound ELSE Found(CHOOSE r \in rows : TRUE)

\* SubsForUser and SubsForTopic called with opts = nil: the rows of a user or
\* of a topic, the soft-deleted ones only with keepDeleted
SubsForUser(forUser, keepDeleted) ==
    {r \in subscriptions :
        r.userid = DecodeUid(forUser) /\ (keepDeleted \/ r.deletedat = 0)}

SubsForTopic(topic, keepDeleted) ==
    {r \in subscriptions : r.topic = topic /\ (keepDeleted \/ r.deletedat = 0)}

\* C16: UserGet, TopicGet, SubscriptionGet, and SubsForUser and SubsForTopic
\* without keepDeleted, return no row whose deletedat is set; with keepDeleted
\* SubsForUser and SubsForTopic return the soft-deleted subscriptions too
C16_DefaultReadsHideDeleted ==
    /\ \A u \in Users :
          /\ UserGet(EncodeUid(u)).nil \/ UserGet(EncodeUid(u)).row.deletedat = 0
          /\ \A r \in SubsForUser(EncodeUid(u), FALSE) : r.deletedat = 0
          /\ \A r \in subscriptions :
                r.userid = u => r \in SubsForUser(EncodeUid(u), TRUE)
    /\ \A t \in UsrTopics \cup {NewTopic} :
          /\ TopicGet(t).nil \/ TopicGet(t).row.deletedat = 0
          /\ \A r \in SubsForTopic(t, FALSE) : r.deletedat = 0
          /\ \A r \in subscriptions : r.topic = t => r \in SubsForTopic(t, TRUE)
          /\ \A u \in Users :
                \/ SubscriptionGet(t, EncodeUid(u)).nil
                \/ SubscriptionGet(t, EncodeUid(u)).row.deletedat = 0

-----------------------------------------------------------------------------
(* The calls of one family of tables at a time *)

UsrOps ==
    {"UserCreate", "UserUpdate", "UserUpdateTags", "TopicCreate", "TopicCreateP2P",
     "TopicShare", "TopicDelete", "UserDelete", "SubsDelete", "AuthAddRecord"}
CredOps == {"CredUpsert", "CredConfirm"}
MsgOps == {"MessageDeleteList"}
FileOps == {"FileStartUpload", "FileFinishUpload"}

\* no call has been made yet, or the last call was one of ops
Family(ops) == last.op \in ops \cup {"none"}

NextDb ==
    \/ Family(UsrOps) /\ NextUsr
    \/ Family(CredOps) /\ CredUpsertStep
    \/ Family(CredOps) /\ CredConfirmStep
    \/ Family(MsgOps) /\ MessageDeleteListStep
    \/ Family(FileOps) /\ FileStartUploadStep
    \/ Family(FileOps) /\ FileFinishUploadStep

SpecDb == Init /\ [][NextDb]_vars

\* every table
Tables ==
    <<users, usertags, topics, topictags, subscriptions, messages, dellog,
      credentials, auth, fileuploads, filemsglinks, devices>>

\* the operations that run several statements in one transaction
TxOps ==
    {"UserCreate", "UserUpdate", "UserUpdateTags", "TopicCreate", "TopicCreateP2P",
     "TopicDelete", "UserDelete", "MessageDeleteList", "CredUpsert"}

\* C17: when a call of UserCreate, UserUpdate, UserUpdateTags, TopicCreate,
\* TopicCreateP2P, TopicDelete, UserDelete, MessageDeleteList or CredUpsert
\* returns an error, every table is as it was before the call, and a call
\* whose transaction was rolled back returns an error
C17_AllOrNothing ==
    [][last'.op \in TxOps
       => /\ last'.err # ErrNil => Tables' = Tables
          /\ last'.end = "rollback" => last'.err # ErrNil]_vars

\* a UserCreate whose INSERT INTO users succeeded and whose tags then failed
C17_Witness ==
    /\ last.op = "UserCreate"
    /\ last.err = PqUnique
    /\ last.dirty
    /\ users = {}

\* the fetch of an entity that is not stored returns nil and no error
FetchNotFound ==
    /\ \A u \in Users :
          /\ (~\E r \in users : r.id = u) => UserGet(EncodeUid(u)) = NotFound
          /\ (~\E r \in auth : r.userid = u /\ r.scheme = AuthScheme)
                => AuthGetRecord(EncodeUid(u), AuthScheme) = [uname |-> "", err |-> ErrNil]
          /\ \A m \in Methods :
                CredActive(credentials, u, m) = {}
                  => /\ CredGetActive(EncodeUid(u), m).nil
                     /\ CredGetActive(EncodeUid(u), m).err = ErrNil
          /\ \A t \in UsrTopics :
                (~\E r \in subscriptions : r.topic = t /\ r.userid = u)
                  => /\ SubscriptionGet(t, EncodeUid(u)).nil
                     /\ SubscriptionGet(t, EncodeUid(u)).err = ErrNil
    /\ \A t \in UsrTopics \cup {NewTopic} :
          t \notin DOMAIN topics => TopicGet(t).nil /\ TopicGet(t).err = ErrNil
    /\ \A f \in Files :
          (~\E r \in fileuploads : r.id = f)
            => FileGet(UserStr(f)).nil /\ FileGet(UserStr(f)).err = ErrNil

\* a targeted mutation of an entity that is not stored returns ErrNotFound
\* and changes no table
MutationNotFound ==
    /\ last'.op = "CredConfirm"
         => \A u \in Users, m \in Methods :
               (CredConfirm(u, m) /\ CredActive(credentials, u, m) = {})
                 => last'.err = ErrNotFound /\ Tables' = Tables
    /\ last'.op = "SubsDelete"
         => \A t \in UsrTopics, u \in Users :
               (/\ SubsDelete(t, EncodeUid(u))
                /\ ~\E r \in subscriptions :
                       r.topic = t /\ r.userid = u /\ r.deletedat = 0)
                 => last'.err = ErrNotFound /\ Tables' = Tables
    /\ last'.op = "FileFinishUpload"
         => \A f \in Files :
               (/\ FileFinishUpload(UserStr(f), UploadCompleted)
                /\ ~\E r \in fileuploads : r.id = f)
                 => last'.err = ErrNotFound /\ Tables' = Tables

\* C20: UserGet, TopicGet, SubscriptionGet, FileGet, CredGetActive and
\* AuthGetRecord of an entity that is not stored return an absent result and
\* no error; CredConfirm with no active unconfirmed record, SubsDelete of a
\* missing or soft-deleted subscription and FileFinishUpload of an unknown
\* file return ErrNotFound and change nothing
C20_NotFound ==
    []FetchNotFound /\ [][MutationNotFound]_vars

\* FileFinishUpload of the unknown file 2 returned while file 1 is stored
C20_Witness ==
    /\ last.op = "FileFinishUpload"
    /\ last.fid = UserStr(2)
    /\ last.err = ErrNotFound
    /\ \E r \in fileuploads : r.id = 1
    /\ ~\E r \in fileuploads : r.id = 2

-----------------------------------------------------------------------------
(* Subscriptions and deletion of users *)

\* the subscription rows of a (topic, user) pair
SubRows(sb, topic, u) == {r \in sb : r.topic = topic /\ r.userid = u}

\* no two subscription rows share their (topic, user) pair
OnePerPair ==
    \A r, s \in subscriptions : (r.topic = s.topic /\ r.userid = s.userid) => r = s

\* TopicShare of a (topic, user) pair that has a row returns no error, adds
\* no row and leaves the pair's row active
Resubscribe ==
    \A u \in TaggedUsers :
        (/\ last'.op = "TopicShare"
         /\ SubRows(subscriptions, "grpA", u) # {})
          => /\ last'.err = ErrNil
             /\ Cardinality(subscriptions') = Cardinality(subscriptions)
             /\ \A r \in SubRows(subscriptions', "grpA", u) : r.deletedat = 0

\* C21: at most one subscription row exists per (topic, user) pair in every
\* state, and subscribing a pair again that already has a row, active or
\* soft-deleted, succeeds, adds no row and leaves the row with its deletedat
\* cleared
C21_OnePerPairResubscribe ==
    []OnePerPair /\ [][Resubscribe]_vars

\* TopicShare of grpA with any user, the tagged user as its owner
TopicShareAllStep ==
    \E u \in Users :
        TopicShare(<<Subscription("grpA", u, u \in TaggedUsers, clock + 1)>>)

\* users, group and p2p subscriptions, owned topics and their deletion
NextSub ==
    \/ UserCreateStep
    \/ TopicCreateStep
    \/ TopicCreateP2PStep
    \/ TopicShareAllStep
    \/ SubsDeleteStep
    \/ UserDeleteStep

SpecSub == Init /\ [][NextSub]_vars

\* the names of the topics user u owns
OwnedBy(u) == {n \in DOMAIN topics : topics[n].owner = u}

\* the subscriptions a soft UserDelete of u marks: those of u and those to
\* the topics u owns
MarkedSubs(u) == {r \in subscriptions : r.userid = u \/ r.topic \in OwnedBy(u)}

\* row r of subscriptions as the next state has it
SubAfter(r) == SubRows(subscriptions', r.topic, r.userid)

\* the effect of a committed soft UserDelete of user u
SoftDeleted(u) ==
    /\ {r.id : r \in users'} = {r.id : r \in users}
    /\ \A r \in users : \E s \in users' :
          /\ s.id = r.id
          /\ IF r.id = u THEN s.deletedat # 0 /\ s.tags = r.tags ELSE s = r
    /\ DOMAIN topics' = DOMAIN topics
    /\ \A n \in DOMAIN topics :
          IF n \in OwnedBy(u)
          THEN /\ topics'[n].deletedat # 0
               /\ topics'[n].owner = u
               /\ topics'[n].seqid = topics[n].seqid
          ELSE topics'[n] = topics[n]
    /\ Cardinality(subscriptions') = Cardinality(subscriptions)
    /\ \A r \in subscriptions :
          IF r \in MarkedSubs(u)
          THEN \E s \in SubAfter(r) : s.deletedat # 0
          ELSE r \in subscriptions'
    /\ <<usertags, topictags, messages, dellog, credentials, auth, fileuploads,
          devices>>'
          = <<usertags, topictags, messages, dellog, credentials, auth, fileuploads,
              devices>>
    /\ UserGet(EncodeUid(u))' = NotFound

\* C22: a committed UserDelete(uid, hard=false) removes no row, sets the
\* deletion timestamp of the user, of the user's subscriptions, of the topics
\* the user owns and of the subscriptions to those topics, leaves every other
\* row unchanged, and UserGet(uid) then returns no user
C22_SoftUserDelete ==
    [][\A u \in Users :
          (/\ last'.op = "UserDelete"
           /\ last'.err = ErrNil
           /\ UserDelete(EncodeUid(u), FALSE))
            => SoftDeleted(u)]_vars

\* user 1, owner of grpA to which user 2 is subscribed, was soft-deleted:
\* both subscriptions to grpA, the topic and the user are marked, user 2 is not
C22_Witness ==
    /\ last.op = "UserDelete"
    /\ last.err = ErrNil
    /\ last.end = "commit"
    /\ \E r \in users : r.id = 1 /\ r.deletedat # 0
    /\ \E r \in users : r.id = 2 /\ r.deletedat = 0
    /\ topics["grpA"].owner = 1 /\ topics["grpA"].deletedat # 0
    /\ \E r \in SubRows(subscriptions, "grpA", 2) : r.deletedat # 0
    /\ \E r \in SubRows(subscriptions, P2PTopic, 1) : r.deletedat # 0
    /\ \E r \in SubRows(subscriptions, P2PTopic, 2) : r.deletedat = 0

\* no row of any table refers to user u, and no topic u owned is left with
\* its messages, dellog rows, subscriptions and tags
NoTraceOf(u, owned) ==
    /\ \A r \in users : r.id # u
    /\ \A r \in usertags : r.key # u
    /\ \A r \in devices \cup subscriptions \cup auth \cup credentials : r.userid # u
    /\ \A k \in 1..Len(dellog) :
          dellog[k].deletedfor # u /\ dellog[k].topic \notin owned
    /\ DOMAIN topics \cap owned = {}
    /\ \A r \in messages \cup subscriptions : r.topic \notin owned
    /\ \A r \in topictags : r.key \notin owned

\* the rows that do not belong to user u or to a topic in owned
RowsNotOf(u, owned) ==
    [users |-> {r \in users : r.id # u},
     usertags |-> {r \in usertags : r.key # u},
     devices |-> {r \in devices : r.userid # u},
     auth |-> {r \in auth : r.userid # u},
     credentials |-> {r \in credentials : r.userid # u},
     subscriptions |-> {r \in subscriptions : r.userid # u /\ r.topic \notin owned},
     topics |-> {topics[n] : n \in DOMAIN topics \ owned},
     topictags |-> {r \in topictags : r.key \notin owned},
     messages |-> {r \in messages : r.topic \notin owned}]

-----------------------------------------------------------------------------
(* Table devices: DeviceUpsert and DeviceDelete, statement by statement on
   concurrent connections (READ COMMITTED) *)

DeviceDef(d) == [DeviceId |-> d]

\* the row DeviceUpsert inserts
DevRow(uid, deviceID) ==
    [userid |-> DecodeUid(uid), hash |-> deviceHasher[deviceID],
     deviceid |-> deviceID]

\* rows other connections have deleted, or inserted, and not yet committed
DevLockedBy(p) == UNION {devTx[q].rm : q \in Procs \ {p}}
DevPendingBy(p) == UNION {devTx[q].ins : q \in Procs \ {p}}

DevCall(op, err, end) == [op |-> op, err |-> err, end |-> end]

\* a.db.Begin() of DeviceUpsert and DeviceDelete
DevBegin(p, op, uid, deviceID) ==
    /\ devTx[p].pc = "idle"
    /\ devTx' = [devTx EXCEPT ![p] = [IdleDev EXCEPT !.pc = "delete", !.op = op,
                                                    !.uid = uid, !.dev = deviceID]]
    /\ UNCHANGED <<devices, devLast, last>>
    /\ UNCHANGED exceptDev

DeviceUpsertBegin(p, uid, def) == DevBegin(p, "DeviceUpsert", uid, def.DeviceId)

DeviceDeleteBegin(p, uid, deviceID) == DevBegin(p, "DeviceDelete", uid, deviceID)

\* the rows the DELETE of the call selects:
\* DELETE FROM devices WHERE hash=$1, or deviceDelete's statement
DevTargets(t) ==
    IF t.op = "DeviceUpsert"
    THEN {r \in devices : r.hash = deviceHasher[t.dev]}
    ELSE deviceDeleteRows(devices, t.uid, t.dev)

\* the statement after the DELETE: the INSERT, or tx.Commit()
DevAfterDelete(t) == IF t.op = "DeviceUpsert" THEN "insert" ELSE "commit"

\* the DELETE starts: it deletes the rows it selects, or waits for the
\* connection that has deleted one of them
DevDelete(p) ==
    /\ devTx[p].pc = "delete"
    /\ \E targets \in {DevTargets(devTx[p])} :
          devTx' = [devTx EXCEPT ![p] =
                      IF targets \cap DevLockedBy(p) # {}
                      THEN [@ EXCEPT !.pc = "deleteWait", !.snap = targets]
                      ELSE [@ EXCEPT !.pc = DevAfterDelete(devTx[p]), !.rm = targets]]
    /\ UNCHANGED <<devices, devLast, last>>
    /\ UNCHANGED exceptDev

\* the DELETE goes on after the other connection has ended: it deletes the
\* rows of its snapshot that are still there and sees no row committed since
DevDeleteResume(p) ==
    /\ devTx[p].pc = "deleteWait"
    /\ devTx[p].snap \cap DevLockedBy(p) = {}
    /\ devTx' = [devTx EXCEPT ![p] =
                    [@ EXCEPT !.pc = DevAfterDelete(devTx[p]), !.rm = devTx[p].snap,
                                !.snap = {}]]
    /\ UNCHANGED <<devices, devLast, last>>
    /\ UNCHANGED exceptDev

\* the deferred tx.Rollback() and the return of the error
DevFail(p, err) ==
    /\ devTx' = [devTx EXCEPT ![p] = IdleDev]
    /\ last' = DevCall(devTx[p].op, err, "rollback")
    /\ UNCHANGED <<devices, devLast>>

\* INSERT INTO devices(userid, hash, deviceId, ...): FOREIGN KEY(userid) and
\* UNIQUE(hash); it waits for a connection whose uncommitted row has the hash
DevInsert(p) ==
    /\ devTx[p].pc = "insert"
    /\ LET row == DevRow(devTx[p].uid, devTx[p].dev)
           stored == {r \in devices \ devTx[p].rm : r.hash = row.hash}
           pending == {r \in DevPendingBy(p) : r.hash = row.hash}
       IN  IF ~\E u \in users : u.id = row.userid
           THEN DevFail(p, PqForeignKey)
           ELSE /\ pending = {}
                /\ stored \cap DevLockedBy(p) = {}
                /\ IF stored # {}
                   THEN DevFail(p, PqUnique)
                   ELSE /\ devTx' = [devTx EXCEPT ![p] =
                                       [@ EXCEPT !.pc = "commit", !.ins = {row}]]
                        /\ UNCHANGED <<devices, devLast, last>>
    /\ UNCHANGED exceptDev

\* tx.Commit(): the connections waiting for this one see its deletions
DevCommit(p) ==
    /\ devTx[p].pc = "commit"
    /\ devices' = (devices \ devTx[p].rm) \cup devTx[p].ins
    /\ devLast' = IF devTx[p].op = "DeviceUpsert"
                  THEN [devLast EXCEPT ![devTx[p].dev] = DecodeUid(devTx[p].uid)]
                  ELSE devLast
    /\ devTx' = [q \in Procs |->
                    IF q = p THEN IdleDev
                    ELSE [devTx[q] EXCEPT !.snap = @ \ devTx[p].rm]]
    /\ last' = DevCall(devTx[p].op, ErrNil, "commit")
    /\ UNCHANGED exceptDev

DeviceUpsertBeginStep ==
    \E p \in Procs, u \in Users, d \in DeviceIds :
        DeviceUpsertBegin(p, EncodeUid(u), DeviceDef(d))

DeviceDeleteBeginStep ==
    \E p \in Procs, u \in Users, d \in DeviceIds :
        DeviceDeleteBegin(p, EncodeUid(u), d)

DevDeleteStep == \E p \in Procs : DevDelete(p)

DevDeleteResumeStep == \E p \in Procs : DevDeleteResume(p)

DevInsertStep == \E p \in Procs : DevInsert(p)

DevCommitStep == \E p \in Procs : DevCommit(p)

\* a user is created without tags
UserCreatePlainStep == \E u \in Users : UserCreate(User(u, <<>>))

NextDev ==
    \/ UserCreatePlainStep
    \/ DeviceUpsertBeginStep
    \/ DeviceDeleteBeginStep
    \/ DevDeleteStep
    \/ DevDeleteResumeStep
    \/ DevInsertStep
    \/ DevCommitStep

SpecDev == Init /\ [][NextDev]_vars

\* the rows of device id d
DevRowsOf(d) == {r \in devices : r.deviceid = d}

\* each device id is registered to at most one user, the user of the last
\* committed DeviceUpsert for it
OneUserPerDevice ==
    \A d \in DeviceIds :
        /\ Cardinality(DevRowsOf(d)) <= 1
        /\ \A r \in DevRowsOf(d) : r.userid = devLast[d]

\* a committed DeviceDelete(uid, deviceID) removes at most the row of
\* deviceID registered to uid, and nothing when another user has the device
DeleteOwnOnly ==
    \A p \in Procs :
        (/\ devTx[p].op = "DeviceDelete"
         /\ devTx[p].pc = "commit"
         /\ devTx'[p].pc = "idle")
          => /\ devices \ devices' \subseteq
                   {DevRow(devTx[p].uid, devTx[p].dev)}
             /\ devices' \subseteq devices
             /\ (\A r \in DevRowsOf(devTx[p].dev) : r.userid # DecodeUid(devTx[p].uid))
                   => devices' = devices

\* C24: after any interleaving of DeviceUpsert and DeviceDelete calls each
\* device id is registered to at most one user, the user of the last committed
\* DeviceUpsert for that device id, and a DeviceDelete by a user who does not
\* have the device removes nothing
C24_OneUserPerDevice ==
    []OneUserPerDevice /\ [][DeleteOwnOnly]_vars

\* the DELETE of DeviceDelete(user 1, d1) has run and removed nothing, d1
\* being registered to user 2 by the last committed DeviceUpsert, while
\* another DeviceUpsert of d1 is in progress
C24_Witness ==
    \E p, q \in Procs :
        /\ p # q
        /\ devTx[p].op = "DeviceDelete"
        /\ devTx[p].pc = "commit"
        /\ devTx[p].uid = EncodeUid(1)
        /\ devTx[p].dev = "d1"
        /\ devTx[p].rm = {}
        /\ devTx[q].op = "DeviceUpsert"
        /\ devTx[q].dev = "d1"
        /\ devTx[q].pc = "insert"
        /\ devLast["d1"] = 2
        /\ DevRowsOf("d1") = {DevRow(EncodeUid(2), "d1")}

-----------------------------------------------------------------------------
(* Tags of users and topics *)

\* update maps that name the tags the way the adapter expects, in lower
\* case, or with a []string value, and one that names another column
TagUpdates ==
    {[Tags |-> StringSlice(<<"b">>)], [tags |-> StringSlice(<<"b">>)],
     [Tags |-> Strings(<<"b">>)], [UpdatedAt |-> 1]}

UserUpdateAnyStep ==
    \E u \in TaggedUsers, update \in TagUpdates : UserUpdate(EncodeUid(u), update)

TopicUpdateWithTagsStep ==
    \E update \in TagUpdates : TopicUpdateWithTags(NewTopic, update)

\* UserUpdateTags with tags to add, to remove and to reset to; the reset
\* list may name a tag twice
TagAdds == {<<>>, <<"b">>}
TagRemoves == {<<>>, <<"a">>}
TagResets == {NoTags, SomeTags(<<"a">>), SomeTags(<<"b", "b">>)}

UserUpdateTagsAnyStep ==
    \E u \in TaggedUsers, add \in TagAdds, remove \in TagRemoves,
       reset \in TagResets :
        UserUpdateTags(EncodeUid(u), add, remove, reset)

\* both users are created with tags; a list may name a tag twice
UserCreateTaggedStep ==
    \E u \in Users, tags \in TagLists \cup {<<"b">>} :
        /\ u \in TaggedUsers <=> tags # <<"b">>
        /\ UserCreate(User(u, tags))

NextTag ==
    \/ UserCreateTaggedStep
    \/ UserUpdateAnyStep
    \/ UserUpdateTagsAnyStep
    \/ TopicCreateStep
    \/ TopicUpdateWithTagsStep

SpecTag == Init /\ [][NextTag]_vars

\* the elements of a list of tags
TagSet(tags) == {tags[k] : k \in 1..Len(tags)}

\* the tags indexed for the row with key keyVal
Indexed(table, keyVal) == {r.tag : r \in {x \in table : x.key = keyVal}}

\* the tags indexed in usertags and topictags for a user or a topic are the
\* tags of its own tags attribute, and no tag is indexed for a missing user
\* or topic
TagsAgree ==
    /\ \A u \in users : Indexed(usertags, u.id) = TagSet(u.tags)
    /\ \A r \in usertags : \E u \in users : u.id = r.key
    /\ \A n \in DOMAIN topics : Indexed(topictags, n) = TagSet(topics[n].tags)
    /\ \A r \in topictags : r.key \in DOMAIN topics

\* a UserUpdate of a stored user and a TopicUpdate of a stored topic whose
\* map names the tags, under any spelling of the key and type of the value,
\* commits
TagUpdateCommits ==
    /\ \A u \in TaggedUsers, update \in TagUpdates :
          (/\ last'.op = "UserUpdate"
           /\ \E r \in users : r.id = u
           /\ "tags" \in {ToLower[k] : k \in DOMAIN update}
           /\ UserUpdate(EncodeUid(u), update))
            => last'.err = ErrNil
    /\ \A update \in TagUpdates :
          (/\ last'.op = "TopicUpdate"
           /\ NewTopic \in DOMAIN topics
           /\ "tags" \in {ToLower[k] : k \in DOMAIN update}
           /\ TopicUpdateWithTags(NewTopic, update))
            => last'.err = ErrNil

NamesTwice(tags) == \E j, k \in 1..Len(tags) : j # k /\ tags[j] = tags[k]

\* a UserUpdateTags of a stored user that resets to a list naming a tag twice
\* skips the second insert and commits the tags of the list; one that adds a
\* tag the user has, without reset, returns ErrDuplicate and changes nothing
DuplicateTags ==
    \A u \in TaggedUsers, add \in TagAdds, reset \in TagResets :
        (/\ last'.op = "UserUpdateTags"
         /\ \E r \in users : r.id = u
         /\ UserUpdateTags(EncodeUid(u), add, <<>>, reset))
          => /\ (~reset.nil /\ NamesTwice(reset.tags))
                  => /\ last'.err = ErrNil
                     /\ Indexed(usertags', u) = TagSet(reset.tags)
             /\ (reset.nil /\ TagSet(add) \cap Indexed(usertags, u) # {})
                  => /\ last'.err = ErrDuplicate
                     /\ Tables' = Tables

\* C26: addTags inserts one index row per tag; on a uniqueness violation it
\* skips the tag and inserts the remaining ones when the tags are being reset
\* (UserUpdateTags with reset non-nil), and otherwise stops and returns
\* ErrDuplicate
C26_AddTagsDuplicates ==
    [][DuplicateTags]_vars

\* the tags a UserUpdateTags of user u is to leave, given the tags before it
TagsWanted(old, add, remove, reset) ==
    IF reset.nil THEN (old \cup TagSet(add)) \ TagSet(remove)
    ELSE TagSet(reset.tags)

\* a UserUpdateTags(u, add, remove, reset) with removals from removes, of a
\* stored user, that adds no tag the user has and resets to no list naming a
\* tag twice, leaves the tags wanted, in the index and in the list it returns
\* and writes to users.tags, and leaves the tags of the other users
TagsUpdated(removes) ==
    \A u \in TaggedUsers, add \in TagAdds, remove \in removes, reset \in TagResets :
        (/\ last'.op = "UserUpdateTags"
         /\ \E r \in users : r.id = u
         /\ reset.nil => TagSet(add) \cap Indexed(usertags, u) = {}
         /\ ~reset.nil => ~NamesTwice(reset.tags)
         /\ UserUpdateTags(EncodeUid(u), add, remove, reset))
          => /\ Indexed(usertags', u)
                   = TagsWanted(Indexed(usertags, u), add, remove, reset)
             /\ \A r \in users' : r.id = u => TagSet(r.tags) = Indexed(usertags', u)
             /\ {r \in usertags' : r.key # u} = {r \in usertags : r.key # u}
             /\ {r \in users' : r.id # u} = {r \in users : r.id # u}

\* C27: UserUpdateTags(uid, add, remove, reset) with reset nil and add
\* disjoint from the user's tags leaves (old tags + add) - remove, with reset
\* non-nil leaves exactly reset; the list returned is the resulting tag set
\* and the tags of other users are unchanged
C27_UserUpdateTags ==
    [][TagsUpdated(TagRemoves)]_vars

\* the same for the calls that remove no tag
TagsUpdatedNoRemove ==
    [][TagsUpdated({<<>>})]_vars

-----------------------------------------------------------------------------
(* FindUsers and FindTopics *)

\* the placeholders of the query: $1.. of the IN list, those of HAVING and of
\* its count when req is not empty, and the one of LIMIT
findPhs(req, opt) ==
    LET n == Len(req) + Len(opt)
        having == IF Len(req) > 0 THEN [k \in 1..(Len(req) + 1) |-> n + k] ELSE <<>>
    IN  [k \in 1..n |-> k] \o having \o <<n + Len(having) + 1>>

\* the arguments: req and opt, req again and len(req), and a.maxResults
findArgs(req, opt, maxResults) ==
    req \o opt \o (IF Len(req) > 0 THEN req \o <<Len(req)>> ELSE <<>>)
        \o <<maxResults>>

\* the error of the query: an empty IN list, or placeholders that do not
\* match the arguments
findErr(req, opt, maxResults) ==
    LET phs == findPhs(req, opt)
    IN  IF Len(req) + Len(opt) = 0 THEN PqSyntaxError
        ELSE IF StmtBad(phs, [k \in 1..Len(phs) |-> "int"],
                        Len(findArgs(req, opt, maxResults)))
        THEN PqBadParams
        ELSE ErrNil

\* COUNT of the rows of the tags table joined to the key whose tag is in tags
tagCount(table, keyVal, tags) ==
    Cardinality({r \in table : r.key = keyVal /\ r.tag \in TagSet(tags)})

\* WHERE tag IN (req, opt) AND deletedat IS NULL GROUP BY key
\* [HAVING COUNT(tag IN (req) OR NULL) >= len(req)], with matches = COUNT(*)
findGroups(rows, table, req, opt) ==
    {[key |-> e.key, tags |-> e.tags,
      matches |-> tagCount(table, e.key, req \o opt)] :
        e \in {x \in rows : /\ x.deletedat = 0
                            /\ tagCount(table, x.key, req \o opt) >= 1
                            /\ Len(req) > 0
                                 => tagCount(table, x.key, req) >= Len(req)}}

\* (variant: no ORDER BY)
OrdersAny(groups) == MapOrders(groups)

\* ORDER BY matches DESC: the orders in which no row precedes one that has
\* more matches
OrdersByMatchesDesc(groups) ==
    {s \in MapOrders(groups) :
        \A j, k \in 1..Len(s) : j < k => s[j].matches >= s[k].matches}

\* the tags of the row that the query named
foundTags(tags, req, opt) ==
    LET InIndex(tag) == tag \in TagSet(req \o opt)
    IN  SelectSeq(tags, InIndex)

\* the rows of users and of topics with their key
userKeyed(us) == {[key |-> u.id, tags |-> u.tags, deletedat |-> u.deletedat] : u \in us}
topicKeyed(tp) ==
    {[key |-> n, tags |-> tp[n].tags, deletedat |-> tp[n].deletedat] : n \in DOMAIN tp}

\* FindUsers: the lists it can return (one for each order the engine can
\* give to rows with equal matches), the caller skipped
findUsers(us, ut, maxResults, uid, req, opt) ==
    LET NotCaller(g) == g.key # DecodeUid(uid)
        Sub(g) == [User |-> UidString(EncodeUid(g.key)),
                   Private |-> foundTags(g.tags, req, opt)]
        Subs(s) == LET kept == SelectSeq(Limited(s, maxResults), NotCaller)
                   IN  [k \in 1..Len(kept) |-> Sub(kept[k])]
    IN  IF findErr(req, opt, maxResults) # ErrNil
        THEN [err |-> findErr(req, opt, maxResults), subs |-> {<<>>}]
        ELSE [err |-> ErrNil,
              subs |-> {Subs(s) : s \in OrdersByMatchesDesc(
                                           findGroups(userKeyed(us), ut, req, opt))}]

\* FindTopics
findTopics(tp, tt, maxResults, req, opt) ==
    LET Sub(g) == [Topic |-> g.key, Private |-> foundTags(g.tags, req, opt)]
        Subs(s) == LET kept == Limited(s, maxResults)
                   IN  [k \in 1..Len(kept) |-> Sub(kept[k])]
    IN  IF findErr(req, opt, maxResults) # ErrNil
        THEN [err |-> findErr(req, opt, maxResults), subs |-> {<<>>}]
        ELSE [err |-> ErrNil,
              subs |-> {Subs(s) : s \in OrdersByMatchesDesc(
                                           findGroups(topicKeyed(tp), tt, req, opt))}]

FindUsers(maxResults, uid, req, opt) ==
    findUsers(users, usertags, maxResults, uid, req, opt)

FindTopics(maxResults, req, opt) ==
    findTopics(topics, topictags, maxResults, req, opt)

\* the tables searched: two users and two group topics owned by user 1, with
\* one or two tags, some of them soft-deleted
FindTagLists == {<<"a">>, <<"b">>, <<"a", "b">>}
FindTopicNames == {NewTopic, "grpD"}

UserCreateFindStep ==
    \E u \in Users, tags \in FindTagLists : UserCreate(User(u, tags))

TopicCreateFindStep ==
    \E n \in FindTopicNames, tags \in FindTagLists :
        TopicCreate(Topic(n, UserStr(1), tags, clock + 1))

NextFind ==
    \/ UserCreateFindStep
    \/ TopicCreateFindStep
    \/ UserDeleteStep

SpecFind == Init /\ [][NextFind]_vars

\* the searches made: required and optional tags, the caller, and the
\* adapter's maxResults
FindReqs == {<<>>, <<"a">>, <<"b">>, <<"a", "b">>, <<"a", "a">>}
FindOpts == {<<>>, <<"a">>, <<"b">>}
FindCallers == Users \cup {3}
FindLimits == {1, defaultMaxResults}

\* the entity with key keyVal is stored and not deleted, has every tag of req
\* and at least one tag of req and opt
FoundRightly(rows, table, keyVal, req, opt) ==
    /\ \E e \in rows : e.key = keyVal /\ e.deletedat = 0
    /\ TagSet(req) \subseteq Indexed(table, keyVal)
    /\ TagSet(req \o opt) \cap Indexed(table, keyVal) # {}

\* the keys, in the order returned, go from more to fewer tags of req and opt
RankedRightly(table, keys, req, opt) ==
    \A j, k \in 1..Len(keys) :
        j < k => Cardinality(Indexed(table, keys[j]) \cap TagSet(req \o opt))
                   >= Cardinality(Indexed(table, keys[k]) \cap TagSet(req \o opt))

\* C28: for all lists of required tags req and optional tags opt, FindUsers
\* and FindTopics return only entities that are not deleted, carry every tag
\* of req and at least one tag of req and opt, ordered by the number of tags
\* of req and opt they carry, highest first
C28_FindByTags ==
    \A req \in FindReqs, opt \in FindOpts, lim \in FindLimits :
        /\ \A c \in FindCallers :
              \A subs \in FindUsers(lim, EncodeUid(c), req, opt).subs :
                  LET keys == [k \in 1..Len(subs) |-> DecodeUid(ParseUid(subs[k].User))]
                  IN  /\ \A k \in 1..Len(keys) :
                            FoundRightly(userKeyed(users), usertags, keys[k], req, opt)
                      /\ RankedRightly(usertags, keys, req, opt)
        /\ \A subs \in FindTopics(lim, req, opt).subs :
              LET keys == [k \in 1..Len(subs) |-> subs[k].Topic]
              IN  /\ \A k \in 1..Len(keys) :
                        FoundRightly(topicKeyed(topics), topictags, keys[k], req, opt)
                  /\ RankedRightly(topictags, keys, req, opt)

\* users 1 (tags a, b) and 2 (tag b) are found in this order by a search for
\* b with a optional, topic grpD (tag b) is found by it, and the soft-deleted
\* topic grpC with tag b is not
C28_Witness ==
    /\ FindUsers(defaultMaxResults, EncodeUid(3), <<"b">>, <<"a">>).subs
          = {<<[User |-> UserStr(1), Private |-> <<"a", "b">>],
               [User |-> UserStr(2), Private |-> <<"b">>]>>}
    /\ FindTopics(defaultMaxResults, <<"b">>, <<"a">>).subs
          = {<<[Topic |-> "grpD", Private |-> <<"b">>]>>}
    /\ NewTopic \in DOMAIN topics
    /\ topics[NewTopic].deletedat # 0
    /\ "b" \in Indexed(topictags, NewTopic)

-----------------------------------------------------------------------------
(* UsersForTopic and TopicsForUser *)

\* t.GetTopicCat, and t.ParseP2P for the p2p topic of users 1 and 2
MeTopic == "usr1"
FndTopic == "fnd1"

GetTopicCat(topic) ==
    IF topic = P2PTopic THEN "p2p"
    ELSE IF topic = MeTopic THEN "me"
    ELSE IF topic = FndTopic THEN "fnd"
    ELSE "grp"

ParseP2P(topic) == <<EncodeUid(1), EncodeUid(2)>>

P2PName(uid, uid2) ==
    IF {uid, uid2} = {EncodeUid(1), EncodeUid(2)} THEN P2PTopic ELSE ""

\* strconv.ParseInt of the decimal text of a key, 0 when it is no number
encodeUidString(str) ==
    EncodeUid(IF ParseBigint(str) = -1 THEN 0 ELSE ParseBigint(str))

\* opts *t.QueryOpt of the calls on subscriptions: nil, or the user, the topic and the limit asked for
NoOpts == [nil |-> TRUE, User |-> 0, Topic |-> "", Limit |-> 0]
SubQueryOpt(user, topic, limit) ==
    [nil |-> FALSE, User |-> user, Topic |-> topic, Limit |-> limit]

\* (variant: opts.Limit is taken whenever it is set)
queryLimitOfOpts(maxResults, opts) ==
    IF ~opts.nil /\ opts.Limit > 0 THEN opts.Limit ELSE maxResults

queryLimit(maxResults, opts) ==
    IF ~opts.nil /\ opts.Limit > 0 /\ opts.Limit < maxResults
    THEN opts.Limit ELSE maxResults

\* s.userid=$2 is added for a topic that is not p2p
usersForTopicOneUser(topic, opts) ==
    ~opts.nil /\ opts.User # 0 /\ GetTopicCat(topic) # "p2p"

\* the placeholders of the query of UsersForTopic and the number of its
\* arguments
usersForTopicPhs(topic, opts) ==
    IF usersForTopicOneUser(topic, opts) THEN <<1, 2, 3>> ELSE <<1, 2>>

usersForTopicArgs(topic, opts) ==
    IF usersForTopicOneUser(topic, opts) THEN 3 ELSE 2

\* subscriptions AS s JOIN users AS u ON s.userid=u.id WHERE s.topic=$1
\* [AND u.deletedat IS NULL [AND s.deletedAt IS NULL]] [AND s.userid=$2]
usersForTopicRows(sb, us, topic, keepDeleted, opts) ==
    {[s |-> x[1], u |-> x[2]] :
        x \in {y \in sb \X us :
                 /\ y[1].userid = y[2].id
                 /\ y[1].topic = topic
                 /\ ~keepDeleted => y[2].deletedat = 0
                 /\ ~keepDeleted /\ GetTopicCat(topic) # "p2p" => y[1].deletedat = 0
                 /\ usersForTopicOneUser(topic, opts)
                      => y[1].userid = DecodeUid(opts.User)}}

\* rows.Scan and the lines after it
usersForTopicScan(row) ==
    [User |-> UidString(encodeUidString(Decimal[row.s.userid])),
     Topic |-> row.s.topic,
     DeletedAt |-> row.s.deletedat,
     public |-> fromJSON(row.u.public)]

\* (variant: the public values are left as they were loaded)
keepPublic(subs) == subs

\* the public values of a p2p topic: cleared when one subscription was
\* loaded, those of the first two exchanged otherwise
swapPublic(subs) ==
    IF Len(subs) = 1 THEN <<[subs[1] EXCEPT !.public = Nil]>>
    ELSE [k \in 1..Len(subs) |->
             IF k = 1 THEN [subs[1] EXCEPT !.public = subs[2].public]
             ELSE IF k = 2 THEN [subs[2] EXCEPT !.public = subs[1].public]
             ELSE subs[k]]

\* Remove deleted and unneeded subscriptions
usersForTopicKept(subs, keepDeleted, oneUser) ==
    LET Skipped(sub) == \/ sub.DeletedAt # 0 /\ ~keepDeleted
                        \/ oneUser # 0 /\ ParseUid(sub.User) # oneUser
        Kept(sub) == ~Skipped(sub)
    IN  IF ~keepDeleted \/ oneUser # 0 THEN SelectSeq(subs, Kept) ELSE subs

\* UsersForTopic for the rows in the order s the engine returned them
usersForTopicOf(s, topic, keepDeleted, opts) ==
    LET subs == [k \in 1..Len(s) |-> usersForTopicScan(s[k])]
        oneUser == IF opts.nil THEN 0 ELSE opts.User
    IN  IF GetTopicCat(topic) = "p2p" /\ Len(subs) > 0
        THEN usersForTopicKept(swapPublic(subs), keepDeleted, oneUser)
        ELSE subs

\* the rows UsersForTopic loads: in any order, cut at the limit
usersForTopicLoaded(sb, us, maxResults, topic, keepDeleted, opts) ==
    {Limited(s, queryLimit(maxResults, opts)) :
        s \in MapOrders(usersForTopicRows(sb, us, topic, keepDeleted, opts))}

\* the results UsersForTopic can return
usersForTopic(sb, us, maxResults, topic, keepDeleted, opts) ==
    IF StmtBad(usersForTopicPhs(topic, opts),
               [k \in 1..Len(usersForTopicPhs(topic, opts)) |-> "int"],
               usersForTopicArgs(topic, opts))
    THEN {[err |-> PqBadParams, subs |-> <<>>]}
    ELSE {[err |-> ErrNil, subs |-> usersForTopicOf(s, topic, keepDeleted, opts)] :
             s \in usersForTopicLoaded(sb, us, maxResults, topic, keepDeleted, opts)}

UsersForTopic(topic, keepDeleted, opts) ==
    usersForTopic(subscriptions, users, defaultMaxResults, topic, keepDeleted, opts)

\* the searches made of the p2p topic: with and without opts.User and
\* opts.Limit
ForTopicOpts ==
    {NoOpts} \cup {SubQueryOpt(EncodeUid(u), "", limit) : u \in Users, limit \in {0, 1}}
                 \cup {SubQueryOpt(0, "", 1)}

\* the public profile stored for the participant of the p2p topic that is
\* not the user of sub
OtherPublic(sub) ==
    LET uids == ParseP2P(sub.Topic)
        other == IF ParseUid(sub.User) = uids[1] THEN uids[2] ELSE uids[1]
    IN  {fromJSON(u.public) : u \in {x \in users : x.id = DecodeUid(other)}}

\* C29: UsersForTopic on a p2p topic: when two subscriptions are loaded each
\* returned subscription carries the public profile of the other participant;
\* when one is loaded its public profile is empty; with opts.User only the
\* subscription of that user is returned, under the same rule
C29_P2PPublicSwap ==
    \A keepDeleted \in BOOLEAN, opts \in ForTopicOpts :
        /\ \A r \in UsersForTopic(P2PTopic, keepDeleted, opts) : r.err = ErrNil
        /\ \A s \in usersForTopicLoaded(subscriptions, users, defaultMaxResults,
                                        P2PTopic, keepDeleted, opts) :
              LET subs == usersForTopicOf(s, P2PTopic, keepDeleted, opts)
              IN  \A k \in 1..Len(subs) :
                    /\ Len(s) = 2 => {subs[k].public} = OtherPublic(subs[k])
                    /\ Len(s) = 1 => subs[k].public = Nil
                    /\ ~opts.nil /\ opts.User # 0 => ParseUid(subs[k].User) = opts.User
                    /\ ~keepDeleted => subs[k].DeletedAt = 0

\* user 2 is soft-deleted: without keepDeleted only the subscription of user 1
\* is loaded and returned with an empty public profile; with keepDeleted and
\* opts.User = user 1 both are loaded and the one returned carries the profile
\* of user 2
C29_Witness ==
    /\ \E u \in users : u.id = 2 /\ u.deletedat # 0
    /\ \A r \in UsersForTopic(P2PTopic, FALSE, NoOpts) :
          /\ Len(r.subs) = 1
          /\ r.subs[1].User = UserStr(1)
          /\ r.subs[1].public = Nil
    /\ \A r \in UsersForTopic(P2PTopic, TRUE, SubQueryOpt(EncodeUid(1), "", 0)) :
          /\ Len(r.subs) = 1
          /\ r.subs[1].User = UserStr(1)
          /\ r.subs[1].public = Profile[2]

\* sqlx.In(query, list): the ? bindvar that stands for the list is expanded
\* to one for each element; a query with no ? (marks = 0: it is written with
\* $1) gives an error, an empty query and no arguments, and the callers drop
\* the error (`q, topq, _ := sqlx.In(...)`)
sqlxIn(marks, list) ==
    IF marks # 1 THEN [query |-> "", args |-> <<>>]
    ELSE [query |-> "IN", args |-> list]

\* Queryx of the query sqlx.In returned, on a table with the keys `keys`: the
\* keys of the rows selected; the empty query selects no row when the engine
\* runs it and is an error when it does not
inQuery(q, keys, runs) ==
    IF q.query = ""
    THEN [err |-> IF runs THEN ErrNil ELSE PqSyntaxError, keys |-> {}]
    ELSE [err |-> ErrNil, keys |-> keys \cap {q.args[k] : k \in 1..Len(q.args)}]

\* SELECT ... FROM subscriptions WHERE userid=$1 [AND deletedat IS NULL]
\* [AND topic=$2]
topicsForUserRows(sb, uid, keepDeleted, opts) ==
    {r \in sb : /\ r.userid = DecodeUid(uid)
                /\ keepDeleted \/ r.deletedat = 0
                /\ ~opts.nil /\ opts.Topic # "" => r.topic = opts.Topic}

\* the placeholders of that query and the number of its arguments
topicsForUserPhs(opts) ==
    IF ~opts.nil /\ opts.Topic # "" THEN <<1, 2, 3>> ELSE <<1, 2>>

topicsForUserArgs(opts) ==
    IF ~opts.nil /\ opts.Topic # "" THEN 3 ELSE 2

\* the first loop: 'me' and 'fnd' subscriptions are skipped, the others are
\* kept in join under their topic
topicsForUserJoined(s, uid) ==
    LET Listed(r) == GetTopicCat(r.topic) \notin {"me", "fnd"}
        kept == SelectSeq(s, Listed)
    IN  [k \in 1..Len(kept) |->
            [User |-> UidString(uid), Topic |-> kept[k].topic,
             DeletedAt |-> kept[k].deletedat, public |-> Nil, with |-> ""]]

\* topq: the topics of join; usrq: the other user of each p2p topic of join
topq(join) == [k \in 1..Len(join) |-> join[k].Topic]

usrq(join, uid) ==
    LET IsP2P(sub) == GetTopicCat(sub.Topic) = "p2p"
        p2p == SelectSeq(join, IsP2P)
    IN  [k \in 1..Len(p2p) |->
            IF ParseP2P(p2p[k].Topic)[1] = uid
            THEN DecodeUid(ParseP2P(p2p[k].Topic)[2])
            ELSE DecodeUid(ParseP2P(p2p[k].Topic)[1])]

\* the entry of join for a topic, the zero subscription when there is none
joinOf(join, topic) ==
    IF \E k \in 1..Len(join) : join[k].Topic = topic
    THEN join[CHOOSE k \in 1..Len(join) : join[k].Topic = topic]
    ELSE [User |-> "", Topic |-> "", DeletedAt |-> 0, public |-> Nil, with |-> ""]

\* the second loop, over the rows of topics in the order `names`: a group
\* topic is listed with the public value of the topic
topicsForUserGrp(join, tp, names) ==
    LET IsGrp(n) == GetTopicCat(joinOf(join, n).Topic) = "grp"
        grp == SelectSeq(names, IsGrp)
    IN  [k \in 1..Len(grp) |->
            [joinOf(join, grp[k]) EXCEPT !.public = fromJSON(tp[grp[k]].public)]]

\* the third loop, over the rows of users in the order `ids`: deleted users
\* are skipped without keepDeleted; the p2p topic with the user is listed
\* with the public value of that user
topicsForUserP2P(join, us, ids, uid, keepDeleted) ==
    LET Row(id) == CHOOSE u \in us : u.id = id
        Listed(id) ==
            /\ keepDeleted \/ Row(id).deletedat = 0
            /\ \E k \in 1..Len(join) :
                  join[k].Topic = P2PName(uid, encodeUidString(Decimal[id]))
        p2p == SelectSeq(ids, Listed)
    IN  [k \in 1..Len(p2p) |->
            [joinOf(join, P2PName(uid, encodeUidString(Decimal[p2p[k]])))
                EXCEPT !.public = fromJSON(Row(p2p[k]).public),
                       !.with = UidString(encodeUidString(Decimal[p2p[k]]))]]

\* TopicsForUser with the subscriptions loaded in the order s
topicsForUserOf(s, tp, us, uid, keepDeleted, runs) ==
    LET join == topicsForUserJoined(s, uid)
        tops == inQuery(sqlxIn(0, topq(join)), DOMAIN tp, runs)
        usrs == inQuery(sqlxIn(0, usrq(join, uid)), {u.id : u \in us}, runs)
        grp == IF Len(topq(join)) > 0
               THEN {topicsForUserGrp(join, tp, names) : names \in MapOrders(tops.keys)}
               ELSE {<<>>}
        p2p == IF Len(usrq(join, uid)) > 0
               THEN {topicsForUserP2P(join, us, ids, uid, keepDeleted) :
                        ids \in MapOrders(usrs.keys)}
               ELSE {<<>>}
    IN  IF Len(topq(join)) > 0 /\ tops.err # ErrNil
        THEN {[err |-> tops.err, subs |-> <<>>]}
        ELSE IF Len(usrq(join, uid)) > 0 /\ usrs.err # ErrNil
        THEN {[err |-> usrs.err, subs |-> <<>>]}
        ELSE {[err |-> ErrNil, subs |-> g \o p] : g \in grp, p \in p2p}

\* the results TopicsForUser can return
topicsForUser(sb, tp, us, maxResults, uid, keepDeleted, opts, runs) ==
    IF StmtBad(topicsForUserPhs(opts),
               [k \in 1..Len(topicsForUserPhs(opts)) |-> "int"],
               topicsForUserArgs(opts))
    THEN {[err |-> PqBadParams, subs |-> <<>>]}
    ELSE UNION {topicsForUserOf(Limited(s, queryLimit(maxResults, opts)),
                                tp, us, uid, keepDeleted, runs) :
                  s \in MapOrders(topicsForUserRows(sb, uid, keepDeleted, opts))}

TopicsForUser(uid, keepDeleted, opts, runs) ==
    topicsForUser(subscriptions, topics, users, defaultMaxResults, uid,
                  keepDeleted, opts, runs)

\* user a has a subscription to the p2p topic that is not deleted, and the
\* other participant is a user that is not deleted
P2PContact(a, b) ==
    /\ a # b
    /\ \E r \in subscriptions : r.userid = a /\ r.topic = P2PTopic /\ r.deletedat = 0
    /\ \E u \in users : u.id = b /\ u.deletedat = 0

\* the entries of a contact list for the p2p topic
P2PEntries(subs) == {k \in 1..Len(subs) : subs[k].Topic = P2PTopic}

\* C30: TopicsForUser(A) returns no 'me' or 'fnd' subscription, and for the
\* p2p subscription of A it returns one entry for the p2p topic, whose public
\* profile is the one stored for the other participant
C30_ContactList ==
    \A a \in Users, b \in Users, runs \in EmptyQueryRuns :
        \A res \in TopicsForUser(EncodeUid(a), FALSE, NoOpts, runs) :
            /\ \A k \in 1..Len(res.subs) :
                  GetTopicCat(res.subs[k].Topic) \notin {"me", "fnd"}
            /\ P2PContact(a, b) =>
                  /\ res.err = ErrNil
                  /\ Cardinality(P2PEntries(res.subs)) = 1
                  /\ \A k \in P2PEntries(res.subs) :
                        \E u \in users : /\ u.id = b
                                         /\ res.subs[k].public = fromJSON(u.public)

\* TopicsForUser lists nothing, whatever is stored
TopicsForUserListsNothing ==
    \A a \in Users, keepDeleted \in BOOLEAN, runs \in EmptyQueryRuns :
        \A res \in TopicsForUser(EncodeUid(a), keepDeleted, NoOpts, runs) :
            res.subs = <<>>

-----------------------------------------------------------------------------
(* Table filemsglinks: MessageAttachments and FileDeleteUnused *)

\* the text of a statement as a list of its parentheses and placeholders:
\* it is well formed when every "(" is closed
Count(tokens, tok) == Cardinality({k \in 1..Len(tokens) : tokens[k] = tok})
Unclosed(tokens) == Count(tokens, "(") # Count(tokens, ")")

\* "VALUES('now',$1,msgid)" once for each file id: every row names $1
attachInsertPhs(n) == [k \in 1..n |-> 1]

\* "UPDATE fileuploads SET updatedat='now' WHERE id IN (" followed by "$i,"
\* for each argument, the last "," trimmed; nothing is added after it
attachUpdateQuery(n) == <<"(">> \o [k \in 1..n |-> "$"]

\* the INSERT of MessageAttachments, run on a.db and not on tx: it is
\* committed when it returns
attachInsert(files, links, msgId, ids) ==
    LET hi == IF links = {} THEN 0
              ELSE CHOOSE x \in {l.id : l \in links} : \A l \in links : l.id <= x
        rows == {[id |-> hi + k, fileid |-> ids[k], msgid |-> msgId] :
                    k \in 1..Len(ids)}
    IN  IF StmtBad(attachInsertPhs(Len(ids)), [k \in 1..Len(ids) |-> "int"], Len(ids))
        THEN [links |-> links, err |-> PqBadParams]
        ELSE IF \E k \in 1..Len(ids) : ~\E f \in files : f.id = ids[k]
        THEN [links |-> links, err |-> PqForeignKey]
        ELSE [links |-> links \cup rows, err |-> ErrNil]

\* the UPDATE of MessageAttachments, run on tx
attachUpdate(files, ids, now) ==
    IF Unclosed(attachUpdateQuery(Len(ids)))
    THEN [files |-> files, err |-> PqSyntaxError]
    ELSE [files |-> {IF \E k \in 1..Len(ids) : ids[k] = f.id
                     THEN [f EXCEPT !.updatedat = now] ELSE f : f \in files},
          err |-> ErrNil]

\* MessageAttachments; msgId is the id of a stored message
messageAttachments(files, links, msgId, fids, now) ==
    LET ids == [k \in 1..Len(fids) |-> DecodeUid(ParseUid(fids[k]))]
        ins == attachInsert(files, links, msgId, ids)
        upd == attachUpdate(files, ids, now)
    IN  IF \E k \in 1..Len(fids) : ParseUid(fids[k]) = 0
        THEN [files |-> files, links |-> links, err |-> ErrMalformed, end |-> "none"]
        ELSE IF Len(fids) = 0
        THEN [files |-> files, links |-> links, err |-> ErrMalformed, end |-> "none"]
        ELSE IF ins.err # ErrNil
        THEN [files |-> files, links |-> links, err |-> ins.err, end |-> "rollback"]
        ELSE IF upd.err # ErrNil
        THEN \* tx.Rollback() undoes what ran on tx: nothing
             [files |-> files, links |-> ins.links, err |-> upd.err, end |-> "rollback"]
        ELSE [files |-> upd.files, links |-> ins.links, err |-> ErrNil, end |-> "commit"]

AttachCall(op, msgId, fids, out) ==
    [op |-> op, msgId |-> msgId, fids |-> fids, err |-> out.err, end |-> out.end,
     locations |-> <<>>]

MessageAttachments(msgId, fids) ==
    /\ \E out \in {messageAttachments(fileuploads, filemsglinks, msgId, fids, clock + 1)} :
           /\ fileuploads' = out.files
           /\ filemsglinks' = out.links
           /\ last' = AttachCall("MessageAttachments", msgId, fids, out)
    /\ UNCHANGED <<exceptFile, fdu>>

\* SELECT fu.id,fu.location FROM fileuploads AS fu LEFT JOIN filemsglinks AS
\* fml ON fml.fileid=fu.id WHERE fml.id IS NULL [AND fu.updatedat<$1]
fileUnusedRows(files, links, olderThan) ==
    {f \in files : /\ ~\E l \in links : l.fileid = f.id
                   /\ olderThan # 0 => f.updatedat < olderThan}

\* the placeholders of the SELECT and the number of its arguments
fileUnusedPhs(olderThan, limit) ==
    (IF olderThan # 0 THEN <<1>> ELSE <<>>)
        \o (IF limit > 0 THEN <<(IF olderThan # 0 THEN 1 ELSE 0) + 1>> ELSE <<>>)

fileUnusedArgs(olderThan, limit) ==
    (IF olderThan # 0 THEN 1 ELSE 0) + (IF limit > 0 THEN 1 ELSE 0)

\* the rows the SELECT can return: in any order, cut by LIMIT when limit > 0
fileUnusedSelected(files, links, olderThan, limit) ==
    {IF limit > 0 THEN Limited(s, limit) ELSE s :
        s \in MapOrders(fileUnusedRows(files, links, olderThan))}

\* DELETE FROM fileuploads WHERE id IN (...) as sqlx.In returned it, with the
\* rows of filemsglinks that ON DELETE CASCADE removes
fileDeleteRows(files, links, q, runs) ==
    LET gone == {q.args[k] : k \in 1..Len(q.args)}
    IN  IF q.query = ""
        THEN [files |-> files, links |-> links,
              err |-> IF runs THEN ErrNil ELSE PqSyntaxError]
        ELSE [files |-> {f \in files : f.id \notin gone},
              links |-> {l \in links : l.fileid \notin gone},
              err |-> ErrNil]

\* FileDeleteUnused up to the end of its row loop
FileDeleteUnusedSelect(olderThan, limit) ==
    /\ fdu.pc = "idle"
    /\ ~StmtBad(fileUnusedPhs(olderThan, limit),
                [k \in 1..Len(fileUnusedPhs(olderThan, limit)) |-> "int"],
                fileUnusedArgs(olderThan, limit))
    /\ \E s \in fileUnusedSelected(fileuploads, filemsglinks, olderThan, limit) :
           fdu' = [pc |-> "selected", olderThan |-> olderThan, limit |-> limit,
                   ids |-> [k \in 1..Len(s) |-> s[k].id],
                   locations |-> [k \in 1..Len(s) |-> s[k].location]]
    /\ UNCHANGED <<exceptFile, fileuploads, filemsglinks, last>>

\* FileDeleteUnused from the DELETE to its return
FileDeleteUnusedDelete ==
    /\ fdu.pc = "selected"
    /\ \E runs \in EmptyQueryRuns :
           LET del == IF Len(fdu.ids) > 0
                      THEN fileDeleteRows(fileuploads, filemsglinks,
                                          sqlxIn(0, fdu.ids), runs)
                      ELSE [files |-> fileuploads, links |-> filemsglinks,
                            err |-> ErrNil]
           IN  /\ fileuploads' = del.files
               /\ filemsglinks' = del.links
               /\ last' = [op |-> "FileDeleteUnused", msgId |-> 0, fids |-> <<>>,
                           err |-> del.err,
                           end |-> IF del.err = ErrNil THEN "commit" ELSE "rollback",
                           locations |-> IF del.err = ErrNil THEN fdu.locations
                                         ELSE <<>>]
    /\ fdu' = IdleFdu
    /\ UNCHANGED exceptFile

\* the inputs: files started with an updatedat of 1 or 2, one or two file ids
\* attached to message 1 or 2, deletions of the files older than 0 (not set),
\* 2 or 3 with limit 0 (not set) or 1
MaxLinks == 2
FileStamps == {1, 2}
FidLists == {<<fid>> : fid \in Fids} \cup {<<>>, <<UserStr(1), UserStr(2)>>}
OlderThans == {0, 2, 3}
FileLimits == {0, 1}

FileStartUploadAtStep ==
    \E f \in Files, now \in FileStamps : FileStartUpload(FileDef(f, now))

MessageAttachmentsStep ==
    /\ Cardinality(filemsglinks) < MaxLinks
    /\ \E msgId \in {1, 2}, fids \in FidLists : MessageAttachments(msgId, fids)

FileDeleteUnusedSelectStep ==
    \E olderThan \in OlderThans, limit \in FileLimits :
        FileDeleteUnusedSelect(olderThan, limit)

NextFile ==
    \/ FileStartUploadAtStep
    \/ FileFinishUploadStep
    \/ MessageAttachmentsStep
    \/ FileDeleteUnusedSelectStep
    \/ FileDeleteUnusedDelete

SpecFile == Init /\ [][NextFile]_vars

\* the file rows a step removes
FilesGone == {f \in fileuploads : ~\E g \in fileuploads' : g.id = f.id}

\* the return of a FileDeleteUnused
FileDeleteUnusedReturns == fdu.pc = "selected" /\ fdu'.pc = "idle"

\* what FileDeleteUnused deletes and returns
DeletesUnused ==
    /\ \A f \in FilesGone : FileDeleteUnusedReturns
    /\ \A f \in FilesGone :
          /\ ~\E l \in filemsglinks : l.fileid = f.id
          /\ fdu.olderThan # 0 => f.updatedat < fdu.olderThan
    /\ FileDeleteUnusedReturns =>
          /\ fdu.limit > 0 => Cardinality(FilesGone) <= fdu.limit
          /\ {last'.locations[k] : k \in 1..Len(last'.locations)}
                = {f.location : f \in FilesGone}
          /\ Len(last'.locations) = Cardinality(FilesGone)

\* C31: FileDeleteUnused(olderThan, limit) deletes only file records that
\* have no message link when the deletion commits and, when olderThan is set,
\* were last updated before olderThan, at most limit of them, and returns
\* exactly the locations of the records it deleted
C31_FileDeleteUnused == [][DeletesUnused]_vars

\* no step removes a file record
NoFileEverDeleted == [][FilesGone = {}]_vars

\* the return of a MessageAttachments with the file ids fids
Attached(fids) ==
    \E msgId \in {1, 2} :
        /\ MessageAttachments(msgId, fids)
        /\ Cardinality(filemsglinks) < MaxLinks

\* the rows of fileuploads whose id is in fids
FilesOf(files, fids) ==
    {f \in files : \E k \in 1..Len(fids) : f.id = DecodeUid(ParseUid(fids[k]))}

\* all or nothing
AttachAtomic(fids) ==
    Attached(fids) =>
        IF last'.err = ErrNil
        THEN /\ Cardinality(filemsglinks') = Cardinality(filemsglinks) + Len(fids)
             /\ \A f \in FilesOf(fileuploads', fids) : f.updatedat = clock + 1
        ELSE filemsglinks' = filemsglinks /\ fileuploads' = fileuploads

\* C34: MessageAttachments is atomic: either all links are inserted and the
\* updatedat of all referenced file records is bumped, or, if any statement
\* fails, neither filemsglinks nor fileuploads is changed
C34_AttachmentsAtomic == [][\A fids \in FidLists : AttachAtomic(fids)]_vars

\* MessageAttachments never returns without an error
AttachAlwaysFails ==
    [][\A fids \in FidLists : Attached(fids) => last'.err # ErrNil]_vars

-----------------------------------------------------------------------------
(* The identifier codec: encodeUidString and decodeUidString *)

\* the texts handed to encodeUidString: the decimal texts of the keys, of 0,
\* and texts that are no number
KeyTexts == {Decimal[n] : n \in 0..MaxKey} \cup {"", "x1", "U1"}

\* the texts handed to decodeUidString: the texts of the Uids, of the zero
\* Uid, and malformed ones
UidTexts == {UidString(uid) : uid \in 0..MaxKey} \cup {"", "garbage", "7"}

\* the last call of each of the two functions, with what it returned
NoEncode == [str |-> "-", uid |-> 0]
NoDecode == [str |-> "-", unum |-> 0]
LastEncode == IF last.op = "codec" THEN last.enc ELSE NoEncode
LastDecode == IF last.op = "codec" THEN last.dec ELSE NoDecode

EncodeUidStringCall(str) ==
    /\ last' = [op |-> "codec", err |-> ErrNil, end |-> "none",
                enc |-> [str |-> str, uid |-> encodeUidString(str)],
                dec |-> LastDecode]
    /\ UNCHANGED <<credentials, credSeq, clock, tx, openTx, exceptCred>>

DecodeUidStringCall(str) ==
    /\ last' = [op |-> "codec", err |-> ErrNil, end |-> "none",
                enc |-> LastEncode,
                dec |-> [str |-> str, unum |-> decodeUidString(str)]]
    /\ UNCHANGED <<credentials, credSeq, clock, tx, openTx, exceptCred>>

EncodeUidStringStep == \E str \in KeyTexts : EncodeUidStringCall(str)
DecodeUidStringStep == \E str \in UidTexts : DecodeUidStringCall(str)

NextCodec ==
    \/ EncodeUidStringStep
    \/ DecodeUidStringStep

SpecCodec == Init /\ [][NextCodec]_vars

-----------------------------------------------------------------------------
(* Transactions left open *)

\* C33: every operation that begins a transaction has committed it or rolled
\* it back by the time it returns, on every return path: no call returns with
\* its transaction open and no transaction stays open
C33_NoTransactionLeftOpen == openTx = 0 /\ last.end # "open"

\* the calls other than a CredUpsert of an unconfirmed credential that finds
\* a confirmed one end their transaction
OnlyDuplicateLeavesOpen ==
    last.end = "open" => last.op = "CredUpsert" /\ ~last.done /\ last.err = ErrDuplicate

-----------------------------------------------------------------------------
(* MessageGetDeleted run by two goroutines *)

\* the deletions logged before the reads: one row for user 1 in grpA or for
\* user 2 in grpB
ScanInputs == {<<"grpA", 1>>, <<"grpB", 2>>}

MessageDeleteListScanStep ==
    /\ UNCHANGED exceptMsg
    /\ Len(dellog) < MaxDellog
    /\ \A p \in Procs : getDel[p].pc = "idle"
    /\ \E in \in ScanInputs, delId \in 1..MaxDelId :
           MessageDeleteList(in[1], DelMessage(delId, UserStr(in[2]),
                                               <<Range(delId, 0)>>))

\* the query of MessageGetDeleted with opts = nil: its rows are those of the
\* log when it runs
GetDeletedQuery(p, topic, forUser) ==
    /\ getDel[p].pc = "idle"
    /\ \E rows \in OrderByDelId(dellog, getDeletedRows(dellog, topic, DecodeUid(forUser),
                                                      QueryOpt(0, 0, 0))) :
           getDel' = [getDel EXCEPT ![p] =
                         [IdleGetDel EXCEPT !.pc = "next", !.topic = topic,
                                            !.forUser = forUser,
                                            !.rows = Limited(rows, defaultMaxResults),
                                            !.i = 1]]
    /\ UNCHANGED <<dellogVar, last, exceptScan>>

\* rows.StructScan(&dellog): the row is written to the package-level variable
GetDeletedScan(p) ==
    /\ getDel[p].pc = "next"
    /\ getDel[p].i <= Len(getDel[p].rows)
    /\ dellogVar' = getDel[p].rows[getDel[p].i]
    /\ getDel' = [getDel EXCEPT ![p].pc = "scanned"]
    /\ UNCHANGED <<last, exceptScan>>

\* the rest of the loop body, which reads the package-level variable and
\* sets its Hi
GetDeletedRow(p) ==
    /\ getDel[p].pc = "scanned"
    /\ LET r == getDeletedRow(dellogVar, getDel[p].dmsgs, getDel[p].dmsg)
       IN  getDel' = [getDel EXCEPT ![p].pc = "next", ![p].i = getDel[p].i + 1,
                                    ![p].dmsgs = r.dmsgs, ![p].dmsg = r.dmsg]
    /\ dellogVar' = [dellogVar EXCEPT !.hi = dellogHi(dellogVar)]
    /\ UNCHANGED <<last, exceptScan>>

\* the return of MessageGetDeleted: the call, the rows its query gave it and
\* the events it hands back
GetDeletedReturn(p) ==
    /\ getDel[p].pc = "next"
    /\ getDel[p].i > Len(getDel[p].rows)
    /\ last' = [op |-> "MessageGetDeleted", topic |-> getDel[p].topic,
                forUser |-> getDel[p].forUser, rows |-> getDel[p].rows,
                dmsgs |-> getDeletedEnd(getDel[p].dmsgs, getDel[p].dmsg),
                err |-> ErrNil, end |-> "none"]
    /\ getDel' = [getDel EXCEPT ![p] = IdleGetDel]
    /\ UNCHANGED <<dellogVar, exceptScan>>

GetDeletedQueryStep ==
    \E p \in Procs, in \in ScanInputs : GetDeletedQuery(p, in[1], EncodeUid(in[2]))
GetDeletedScanStep == \E p \in Procs : GetDeletedScan(p)
GetDeletedRowStep == \E p \in Procs : GetDeletedRow(p)
GetDeletedReturnStep == \E p \in Procs : GetDeletedReturn(p)

NextScan ==
    \/ MessageDeleteListScanStep
    \/ GetDeletedQueryStep
    \/ GetDeletedScanStep
    \/ GetDeletedRowStep
    \/ GetDeletedReturnStep

SpecScan == Init /\ [][NextScan]_vars

\* C35: the adapter holds no mutable state shared between requests: a
\* MessageGetDeleted that overlaps another returns exactly what it returns
\* when run alone on the rows its query gave it
C35_GetDeletedReentrant ==
    last.op = "MessageGetDeleted"
        => last.dmsgs = getDeletedLoop(last.rows, 1, <<>>, ZeroDelMessage)


\* ---------------------------------------------------------------------
\* What MessageDeleteList writes
\* ---------------------------------------------------------------------

\* messages saved in the topics MessageDeleteList is called on
MessageSaveDelStep ==
    /\ UNCHANGED exceptMsg
    /\ \E topic \in DelTopics, seq \in 1..MaxSeq, u \in MsgSenders :
           /\ seq <= Cardinality({m \in messages : m.topic = topic}) + 1
           /\ MessageSave(Msg(topic, seq, u, clock + 1))

NextDel ==
    \/ MessageSaveDelStep
    \/ MessageDeleteListStep

SpecDel == Init /\ [][NextDel]_vars

\* the dellog rows k of `dl` from position `first` on hold ranges[k] as given
LoggedAsGiven(dl, first, ranges) ==
    /\ Len(dl) = first + Len(ranges)
    /\ \A k \in 1..Len(ranges) :
          /\ dl[first + k].low = ranges[k].Low
          /\ dl[first + k].hi = IF ranges[k].Hi = 0 THEN ranges[k].Low + 1
                                ELSE ranges[k].Hi

\* C36: a MessageDeleteList that returns no error has appended to dellog one
\* row per input range, in input order, with the given low and hi (hi = 0
\* stored as low+1), under the given topic and DelId, and has left the rows
\* there were as they were: overlapping, repeated or out-of-order ranges are
\* neither merged nor dropped nor reordered.  A call that returns an error
\* has written nothing.
C36_RangesAsGiven ==
    [][last'.op = "MessageDeleteList"
       => \A delId \in 1..MaxDelId :
             \A ranges \in {r \in RangeLists(MaxDellog - Len(dellog)) :
                                Len(r) = last'.n} :
                MessageDeleteList(last'.topic,
                                  DelMessage(delId, last'.deletedFor, ranges))
                => IF last'.err = ErrNil
                   THEN /\ SubSeq(dellog', 1, Len(dellog)) = dellog
                        /\ LoggedAsGiven(dellog', Len(dellog), ranges)
                        /\ \A k \in (Len(dellog) + 1)..Len(dellog') :
                              /\ dellog'[k].topic = last'.topic
                              /\ dellog'[k].delid = delId
                   ELSE dellog' = dellog]_vars

\* one call has logged (2, 4) and then (1, 3), which overlap and are out of
\* order, or the same range twice
C36_Witness ==
    /\ last.op = "MessageDeleteList" /\ last.err = ErrNil
    /\ last.n = 2 /\ last.first = 0 /\ Len(dellog) = 2
    /\ \/ /\ dellog[1].low = 2 /\ dellog[1].hi = 4
          /\ dellog[2].low = 1 /\ dellog[2].hi = 3
       \/ /\ dellog[1].low = 3 /\ dellog[1].hi = 4
          /\ dellog[2].low = 3 /\ dellog[2].hi = 4


NoMessageEverStamped == \A m \in messages : m.deletedat = 0 /\ m.delid = 0


\* ---------------------------------------------------------------------
\* The DeletedFor of the events MessageGetDeleted returns
\* ---------------------------------------------------------------------

\* the deletedfor of the selected rows logged under delId
LoggedFor(dl, sel, delId) == {dl[k].deletedfor : k \in {j \in sel : dl[j].delid = delId}}

\* C38: every event MessageGetDeleted returns carries the DeletedFor of the
\* rows of its own delId: empty when they were logged for everyone
\* (deletedfor = 0), the requesting user's id when they were logged for that
\* user, whatever event precedes it in the result.
C38_EventDeletedFor ==
    \A t \in DelTopics, u \in Users :
       LET opts == QueryOpt(0, 0, 0)
           sel == getDeletedRows(dellog, t, u, opts)
       IN  \A res \in MessageGetDeleted(t, EncodeUid(u), opts) :
              \A i \in 1..Len(res) :
                 /\ LoggedFor(dellog, sel, res[i].DelId) = {0}
                       => res[i].DeletedFor = ""
                 /\ LoggedFor(dellog, sel, res[i].DelId) = {u}
                       => res[i].DeletedFor = UserStr(u)

\* an event logged for everyone that is first in the result, or follows
\* events for everyone only, has an empty DeletedFor
FirstEventDeletedFor ==
    \A t \in DelTopics, u \in Users :
       LET opts == QueryOpt(0, 0, 0)
           sel == getDeletedRows(dellog, t, u, opts)
       IN  \A res \in MessageGetDeleted(t, EncodeUid(u), opts) :
              \A i \in 1..Len(res) :
                 (\A j \in 1..i : LoggedFor(dellog, sel, res[j].DelId) = {0})
                 => res[i].DeletedFor = ""


-----------------------------------------------------------------------------
(* The connection: Open, Close, IsOpen, GetDbVersion, SetMaxResults.  What  *)
(* the driver and the server answer is the environment's choice.            *)

defaultDSN == "postgres://postgres@localhost:5432"
defaultDatabase == "tinode"
adpVersion == 108

ErrConnected == "postgres adapter is already connected"
ErrConfig == "postgres adapter failed to parse config"
ErrDriver == "pq: invalid connection string"
ErrPing == "dial tcp: connection refused"
ErrClose == "sql: close failed"
ErrNotInit == "Database not initialized"

\* json.Unmarshal into configType: the fields the text names, or an error
Unmarshal(jsonconfig) ==
    IF jsonconfig = "{}" THEN [err |-> FALSE, DSN |-> "", DBName |-> ""]
    ELSE IF jsonconfig = "{\"dsn\":\"postgres://db\"}"
    THEN [err |-> FALSE, DSN |-> "postgres://db", DBName |-> ""]
    ELSE [err |-> TRUE, DSN |-> "", DBName |-> ""]

\* Open with the answer `conn` of the driver and the server: "ok",
\* "missingdb" (the ping fails for a missing database only), "driver"
\* (sqlx.Open fails and hands back no handle), "ping" (the ping fails)
open(a, jsonconfig, conn) ==
    IF a.db # Nil THEN [a |-> a, err |-> ErrConnected]
    ELSE IF Unmarshal(jsonconfig).err THEN [a |-> a, err |-> ErrConfig]
    ELSE LET config == Unmarshal(jsonconfig)
             set == [a EXCEPT
                       !.dsn = IF config.DSN = "" THEN defaultDSN ELSE config.DSN,
                       !.dbName = IF config.DBName = "" THEN defaultDatabase
                                  ELSE config.DBName,
                       !.maxResults = IF a.maxResults <= 0 THEN defaultMaxResults
                                      ELSE a.maxResults]
         IN  IF conn = "driver" THEN [a |-> [set EXCEPT !.db = Nil], err |-> ErrDriver]
             ELSE [a |-> [set EXCEPT !.db = "conn"],
                   err |-> IF conn = "ping" THEN ErrPing ELSE ErrNil]

AdpCall(op, val, err, ret) == [op |-> op, val |-> val, err |-> err, ret |-> ret]

Open(jsonconfig, conn) ==
    /\ \E res \in {open(adapter, jsonconfig, conn)} :
          /\ adapter' = res.a
          /\ adpLast' = AdpCall("Open", 0, res.err, 0)
          /\ opens' = IF res.err = ErrConnected THEN opens
                      ELSE IF res.err = ErrNil THEN "ok" ELSE "error"
    /\ UNCHANGED <<last, exceptAdp>>

\* Close; closed is what db.Close() returns
Close(closed) ==
    /\ adapter' = IF adapter.db # Nil
                  THEN [adapter EXCEPT !.db = Nil, !.version = -1]
                  ELSE adapter
    /\ adpLast' = AdpCall("Close", 0, IF adapter.db # Nil THEN closed ELSE ErrNil, 0)
    /\ opens' = "closed"
    /\ UNCHANGED <<last, exceptAdp>>

IsOpen == adapter.db # Nil

\* GetDbVersion; stored is the row of kvmeta, 0 when there is none.  With no
\* handle and no cached version the call dereferences nil: it is made on a
\* handle only
GetDbVersion(stored) ==
    /\ adapter.version > 0 \/ adapter.db # Nil
    /\ IF adapter.version > 0
       THEN /\ adpLast' = AdpCall("GetDbVersion", 0, ErrNil, adapter.version)
            /\ UNCHANGED adapter
       ELSE IF stored = 0
       THEN /\ adpLast' = AdpCall("GetDbVersion", 0, ErrNotInit, -1)
            /\ UNCHANGED adapter
       ELSE /\ adpLast' = AdpCall("GetDbVersion", 0, ErrNil, stored)
            /\ adapter' = [adapter EXCEPT !.version = stored]
    /\ UNCHANGED <<last, opens, exceptAdp>>

SetMaxResults(val) ==
    /\ adapter' = [adapter EXCEPT !.maxResults = IF val <= 0 THEN defaultMaxResults
                                                 ELSE val]
    /\ adpLast' = AdpCall("SetMaxResults", val, ErrNil, 0)
    /\ UNCHANGED <<last, opens, exceptAdp>>

\* SubsForUser and SubsForTopic with opts: the rows the query can return
subsForUserRows(sb, forUser, keepDeleted, opts) ==
    {r \in sb : /\ r.userid = DecodeUid(forUser)
                /\ keepDeleted \/ r.deletedat = 0
                /\ ~opts.nil /\ opts.Topic # "" => r.topic = opts.Topic}

subsForUser(sb, maxResults, forUser, keepDeleted, opts) ==
    {Limited(s, queryLimit(maxResults, opts)) :
        s \in MapOrders(subsForUserRows(sb, forUser, keepDeleted, opts))}

subsForTopicRows(sb, topic, keepDeleted, opts) ==
    {r \in sb : /\ r.topic = topic
                /\ keepDeleted \/ r.deletedat = 0
                /\ ~opts.nil /\ opts.User # 0 => r.userid = DecodeUid(opts.User)}

subsForTopic(sb, maxResults, topic, keepDeleted, opts) ==
    {Limited(s, queryLimit(maxResults, opts)) :
        s \in MapOrders(subsForTopicRows(sb, topic, keepDeleted, opts))}

\* the configurations, answers and limits the connection is exercised with
JsonConfigs == {"{", "{}", "{\"dsn\":\"postgres://db\"}"}
Conns == {"ok", "missingdb", "driver", "ping"}
MaxResultsVals == {-1, 0, 1, 2}
ReadLimits == 0..3

OpenStep == \E jsonconfig \in JsonConfigs, conn \in Conns : Open(jsonconfig, conn)
CloseStep == \E closed \in {ErrNil, ErrClose} : Close(closed)
GetDbVersionStep == \E stored \in {0, adpVersion} : GetDbVersion(stored)
SetMaxResultsStep == \E val \in MaxResultsVals : SetMaxResults(val)

\* the calls that fill the tables are made on an open adapter, those of one
\* group of tables in one behaviour
AdpMsgOps == {"MessageSave", "MessageDeleteList"}

NextAdp ==
    \/ OpenStep
    \/ CloseStep
    \/ GetDbVersionStep
    \/ SetMaxResultsStep
    \/ IsOpen /\ Family(UsrOps) /\ UserCreateStep
    \/ IsOpen /\ Family(UsrOps) /\ TopicShareAllStep
    \/ IsOpen /\ Family(UsrOps) /\ TopicCreateP2PStep
    \/ IsOpen /\ Family(AdpMsgOps) /\ MessageSaveDelStep
    \/ IsOpen /\ Family(AdpMsgOps) /\ MessageDeleteListScanStep

SpecAdp == Init /\ [][NextAdp]_vars


\* min(opts.Limit, maxResults) when opts.Limit is set, maxResults otherwise
ReadBound(limit) ==
    IF limit <= 0 THEN adapter.maxResults
    ELSE IF limit <= adapter.maxResults THEN limit ELSE adapter.maxResults

\* no read of the six calls, with opts.Limit = limit, exceeds bound
ReadsWithin(limit, bound) ==
    /\ \A t \in MsgTopics, u \in Users :
          /\ Len(msgGetAll(messages, dellog, adapter.maxResults, t, EncodeUid(u),
                           QueryOpt(0, 0, limit))) <= bound
          /\ \A rows \in getDeletedRead(dellog, adapter.maxResults, t, EncodeUid(u),
                                        QueryOpt(0, 0, limit)) : Len(rows) <= bound
          /\ \A res \in msgGetDeleted(dellog, adapter.maxResults, t, EncodeUid(u),
                                      QueryOpt(0, 0, limit)) : Len(res) <= bound
    /\ \A keepDeleted \in BOOLEAN, opts \in {SubQueryOpt(0, "", limit)}
                                            \cup (IF limit = 0 THEN {NoOpts} ELSE {}) :
          /\ \A u \in Users :
                /\ \A runs \in EmptyQueryRuns :
                      \A res \in topicsForUser(subscriptions, topics, users,
                                               adapter.maxResults, EncodeUid(u),
                                               keepDeleted, opts, runs) :
                         Len(res.subs) <= bound
                /\ \A s \in subsForUser(subscriptions, adapter.maxResults, EncodeUid(u),
                                        keepDeleted, opts) : Len(s) <= bound
          /\ \A t \in UsrTopics :
                /\ \A s \in usersForTopicLoaded(subscriptions, users, adapter.maxResults,
                                                t, keepDeleted, opts) : Len(s) <= bound
                /\ \A res \in usersForTopic(subscriptions, users, adapter.maxResults,
                                            t, keepDeleted, opts) : Len(res.subs) <= bound
                /\ \A s \in subsForTopic(subscriptions, adapter.maxResults, t,
                                         keepDeleted, opts) : Len(s) <= bound

\* C39: maxResults is positive after every SetMaxResults (val <= 0 gives
\* 1024, any other val itself), after every Open that returns no error and
\* whenever the adapter holds a connection; and on a connected adapter
\* MessageGetAll, MessageGetDeleted, TopicsForUser, UsersForTopic, SubsForUser
\* and SubsForTopic read at most min(opts.Limit, maxResults) rows when
\* opts.Limit > 0 and at most maxResults rows otherwise.
C39_LimitEnforced ==
    /\ adpLast.op = "SetMaxResults"
          => adapter.maxResults = IF adpLast.val <= 0 THEN defaultMaxResults
                                  ELSE adpLast.val
    /\ (adpLast.op \in {"SetMaxResults", "Open"} /\ adpLast.err = ErrNil)
          => adapter.maxResults > 0
    /\ IsOpen => /\ adapter.maxResults > 0
                 /\ \A limit \in ReadLimits : ReadsWithin(limit, ReadBound(limit))

\* after SetMaxResults(1) on a connected adapter, SubsForTopic with
\* opts.Limit = 2 reads one of the two subscriptions of the topic, and
\* MessageGetAll or TopicsForUser likewise one row of several
C39_Witness ==
    /\ IsOpen /\ adapter.maxResults = 1
    /\ \/ /\ Cardinality(subsForTopicRows(subscriptions, "grpA", FALSE, NoOpts)) = 2
          /\ \A s \in subsForTopic(subscriptions, adapter.maxResults, "grpA", FALSE,
                                   SubQueryOpt(0, "", 2)) : Len(s) = 1
          /\ \E u \in Users :
                /\ Cardinality(subsForUserRows(subscriptions, EncodeUid(u), FALSE,
                                               NoOpts)) = 2
                /\ \A s \in subsForUser(subscriptions, adapter.maxResults, EncodeUid(u),
                                        FALSE, SubQueryOpt(0, "", 2)) : Len(s) = 1
       \/ /\ Cardinality({m \in messages : m.topic = "grpA"}) >= 2
          /\ Len(msgGetAll(messages, dellog, adapter.maxResults, "grpA", EncodeUid(2),
                           QueryOpt(0, 0, 2))) = 1
          /\ Len(dellog) = 2
          /\ \E u \in Users :
                \A rows \in getDeletedRead(dellog, adapter.maxResults, "grpA", EncodeUid(u),
                                           QueryOpt(0, 0, 0)) :
                   /\ Len(rows) = 1
                   /\ Cardinality(getDeletedRows(dellog, "grpA", u,
                                                 QueryOpt(0, 0, 0))) = 2

\* an Open that fails to parse its configuration, or is refused, leaves
\* every field of the adapter, maxResults too, as it was
UnparsedOpenSetsNothing ==
    [][\A jsonconfig \in JsonConfigs, conn \in Conns :
          (Open(jsonconfig, conn) /\ adpLast'.err \in {ErrConfig, ErrConnected})
          => adapter' = adapter]_vars

\* ---------------------------------------------------------------------
\* The lifecycle of the connection
\* ---------------------------------------------------------------------

\* Open on an open adapter returns an error and changes nothing
RefusedOpen ==
    \A jsonconfig \in JsonConfigs, conn \in Conns :
       (IsOpen /\ Open(jsonconfig, conn))
       => adpLast'.err # ErrNil /\ adapter' = adapter

\* Close makes IsOpen false and leaves no cached version
Closes ==
    \A closed \in {ErrNil, ErrClose} :
       Close(closed) => ~IsOpen' /\ ~(adapter'.version > 0)

\* an Open that returns an error leaves the adapter closed
FailedOpen ==
    \A jsonconfig \in JsonConfigs, conn \in Conns :
       (~IsOpen /\ Open(jsonconfig, conn) /\ adpLast'.err # ErrNil) => ~IsOpen'

\* C40: IsOpen is true only if the last Open that was not refused returned
\* no error and no Close followed it; an Open that returns an error (bad
\* config, driver error, failed ping) leaves the adapter closed; Open on an
\* open adapter returns an error and changes nothing; Close makes IsOpen
\* false and resets the cached version.
C40_Lifecycle ==
    [][/\ IsOpen' => opens' = "ok"
       /\ FailedOpen
       /\ RefusedOpen
       /\ Closes]_vars

\* what holds of Open on an open adapter and of Close
RefusedOpenAndClose == [][RefusedOpen /\ Closes]_vars

\* an Open that returns an error leaves the adapter closed unless it is the
\* ping that failed
FailedOpenButPing ==
    [][\A jsonconfig \in JsonConfigs, conn \in Conns \ {"ping"} :
          (~IsOpen /\ Open(jsonconfig, conn) /\ adpLast'.err # ErrNil)
          => ~IsOpen']_vars

\* the adapter is open after an Open that returned no error, closed after a
\* Close and before the first Open, and without a handle it has no cached
\* version
OpenedAndClosed ==
    /\ opens = "ok" => IsOpen
    /\ opens \in {"none", "closed"} => ~IsOpen
    /\ ~IsOpen => ~(adapter.version > 0)

====
